---- MODULE Spec2Model ----
(***************************************************************************)
(* Aventa Lumen toolchain: parser (compiler/parser.py, the parser of the   *)
(* main.py pipeline, and compiler/compiler.py, the stand-alone parser),    *)
(* assembler, linker, virtual machine (compiler/runtime.py) and the        *)
(* command-line driver (main.py).                                          *)
(*                                                                         *)
(* A source file is a sequence of physical lines; a line is a sequence of  *)
(* characters; a character is a one-character string.  The non-ASCII       *)
(* letter U+00E9 is written as the atom "U+00E9" and the grave accent as   *)
(* the atom "U+0060".                                                      *)
(***************************************************************************)
EXTENDS Integers, Sequences, FiniteSets, TLC

VARIABLES
    impl,      \* which parse_program runs: "parser" (parser.py) or "compiler" (compiler.py)
    src,       \* the lines of the source file
    line_no,   \* number of lines consumed by the loop of parse_program
    ps,        \* the locals of parse_program
    pc,        \* position in main(): "parse", "assemble", "link", "run", "exit"
    unit,      \* the AssemblyUnit
    program,   \* the Program
    link_err,  \* the LinkError raised by link, if any
    vm,        \* the locals of run_program, and what it did so far
    cli,       \* what main() wrote and returned
    calls,     \* the calls of main() of one process: those to come, those done
    bank       \* the session of the Banker's menu

vars == <<impl, src, line_no, ps, pc, unit, program, link_err, vm, cli, calls, bank>>

(***************************************************************************)
(* Characters                                                              *)
(***************************************************************************)
Ascii ==
    << " ", "!", "\"", "#", "$", "%", "&", "'", "(", ")", "*", "+", ",",
       "-", ".", "/", "0", "1", "2", "3", "4", "5", "6", "7", "8", "9", ":",
       ";", "<", "=", ">", "?", "@", "A", "B", "C", "D", "E", "F", "G", "H",
       "I", "J", "K", "L", "M", "N", "O", "P", "Q", "R", "S", "T", "U", "V",
       "W", "X", "Y", "Z", "[", "\\", "]", "^", "_", "U+0060", "a", "b", "c",
       "d", "e", "f", "g", "h", "i", "j", "k", "l", "m", "n", "o", "p", "q",
       "r", "s", "t", "u", "v", "w", "x", "y", "z", "{", "|", "}", "~" >>

\* ord(c): the code point, which orders strings in sorted()
ord(c) ==
    IF c = "\t" THEN 9
    ELSE IF c = "U+00E9" THEN 233
    ELSE 31 + (CHOOSE i \in DOMAIN Ascii : Ascii[i] = c)

Digits == {"0", "1", "2", "3", "4", "5", "6", "7", "8", "9"}

AsciiLetters == {Ascii[i] : i \in 34..59} \cup {Ascii[i] : i \in 66..91}

\* str.isdigit() / str.strip() / shlex.whitespace on the characters of the model
isdigit(c) == c \in Digits

PyWhitespace == {" ", "\t"}

\* characters matched by \w in a str pattern: Unicode letters, digits and "_"
UnicodeWord == AsciiLetters \cup Digits \cup {"_", "U+00E9"}

COMMENT_MARKERS == << <<"/", "/">>, <<"#">>, <<";">> >>

LABEL_CHARS == AsciiLetters \cup Digits \cup {"_", ".", "-"}

(***************************************************************************)
(* str helpers                                                             *)
(***************************************************************************)
RECURSIVE rstrip(_)
rstrip(s) ==
    IF Len(s) > 0 /\ s[Len(s)] \in PyWhitespace
    THEN rstrip(SubSeq(s, 1, Len(s) - 1))
    ELSE s

RECURSIVE lstrip(_)
lstrip(s) ==
    IF Len(s) > 0 /\ s[1] \in PyWhitespace THEN lstrip(Tail(s)) ELSE s

strip(s) == lstrip(rstrip(s))

\* line.startswith(marker, idx), idx counted from 1
startswith(line, marker, idx) ==
    /\ idx + Len(marker) - 1 <= Len(line)
    /\ SubSeq(line, idx, idx + Len(marker) - 1) = marker

endswith(token, c) == Len(token) > 0 /\ token[Len(token)] = c

\* s < t for str
RECURSIVE StrLess(_, _)
StrLess(s, t) ==
    IF Len(t) = 0 THEN FALSE
    ELSE IF Len(s) = 0 THEN TRUE
    ELSE IF s[1] = t[1] THEN StrLess(Tail(s), Tail(t))
    ELSE ord(s[1]) < ord(t[1])

\* the names of S in descending order: sorted(S, reverse=True)
RECURSIVE sorted_m(_)
sorted_m(S) ==
    IF S = {} THEN <<>>
    ELSE LET m == CHOOSE x \in S : \A y \in S \ {x} : StrLess(y, x)
         IN  <<m>> \o sorted_m(S \ {m})

\* sorted(S) for a set of str
RECURSIVE sorted(_)
sorted(S) ==
    IF S = {} THEN <<>>
    ELSE LET m == CHOOSE x \in S : \A y \in S \ {x} : StrLess(x, y)
         IN  <<m>> \o sorted(S \ {m})

\* int(raw, 10): surrounding whitespace, one optional sign, decimal digits
\* with single underscores between digits
RECURSIVE DecValue(_, _)
DecValue(s, acc) ==
    IF Len(s) = 0 THEN acc
    ELSE IF s[1] = "_" THEN DecValue(Tail(s), acc)
    ELSE DecValue(Tail(s), 10 * acc + (ord(s[1]) - 48))

py_int(raw) ==
    LET t    == strip(raw)
        sgn  == Len(t) > 0 /\ t[1] \in {"+", "-"}
        body == IF sgn THEN Tail(t) ELSE t
        good == /\ Len(body) > 0
                /\ \A i \in 1..Len(body) : body[i] \in Digits \cup {"_"}
                /\ body[1] # "_" /\ body[Len(body)] # "_"
                /\ \A i \in 1..(Len(body) - 1) : ~(body[i] = "_" /\ body[i + 1] = "_")
        mag  == DecValue(body, 0)
    IN  [ok |-> good,
         n  |-> IF ~good THEN 0 ELSE IF sgn /\ t[1] = "-" THEN 0 - mag ELSE mag]

(***************************************************************************)
(* Lexer                                                                   *)
(***************************************************************************)
RECURSIVE strip_scan(_, _, _)
strip_scan(line, idx, in_quote) ==
    IF idx > Len(line) THEN rstrip(line)
    ELSE IF line[idx] = "\"" THEN strip_scan(line, idx + 1, ~in_quote)
    ELSE IF in_quote THEN strip_scan(line, idx + 1, in_quote)
    ELSE IF \E m \in DOMAIN COMMENT_MARKERS : startswith(line, COMMENT_MARKERS[m], idx)
         THEN rstrip(SubSeq(line, 1, idx - 1))
    ELSE strip_scan(line, idx + 1, in_quote)

strip_comments(line) == strip_scan(line, 1, FALSE)

\* shlex.shlex(line, posix=True), commenters = "", whitespace_split = True
shlex_whitespace == {" ", "\t"}
shlex_quotes == {"\"", "'"}
shlex_escape == {"\\"}
shlex_escapedquotes == {"\""}

\* s: [state, escapedstate, token, quoted, out]; the result of list(lexer)
RECURSIVE shlex_read(_, _, _)
shlex_read(line, i, s) ==
    IF i > Len(line)
    THEN CASE s.state = " " -> [ok |-> TRUE, tokens |-> s.out, msg |-> ""]
           [] s.state = "a" ->
                [ok |-> TRUE,
                 tokens |-> IF s.quoted \/ Len(s.token) > 0
                            THEN Append(s.out, s.token) ELSE s.out,
                 msg |-> ""]
           [] s.state \in shlex_quotes ->
                [ok |-> FALSE, tokens |-> <<>>, msg |-> "No closing quotation"]
           [] OTHER ->
                [ok |-> FALSE, tokens |-> <<>>, msg |-> "No escaped character"]
    ELSE
    LET c == line[i]
        emit == [s EXCEPT !.state = " ", !.token = <<>>, !.quoted = FALSE,
                          !.out = Append(s.out, s.token)]
    IN
    CASE s.state = " " ->
           IF c \in shlex_whitespace
           THEN shlex_read(line, i + 1,
                           IF Len(s.token) > 0 \/ s.quoted THEN emit ELSE s)
           ELSE IF c \in shlex_escape
           THEN shlex_read(line, i + 1, [s EXCEPT !.escapedstate = "a", !.state = c])
           ELSE IF c \in shlex_quotes
           THEN shlex_read(line, i + 1, [s EXCEPT !.state = c])
           ELSE shlex_read(line, i + 1, [s EXCEPT !.token = <<c>>, !.state = "a"])
      [] s.state \in shlex_quotes ->
           IF c = s.state
           THEN shlex_read(line, i + 1, [s EXCEPT !.quoted = TRUE, !.state = "a"])
           ELSE IF c \in shlex_escape /\ s.state \in shlex_escapedquotes
           THEN shlex_read(line, i + 1,
                           [s EXCEPT !.quoted = TRUE, !.escapedstate = s.state, !.state = c])
           ELSE shlex_read(line, i + 1,
                           [s EXCEPT !.quoted = TRUE, !.token = Append(s.token, c)])
      [] s.state \in shlex_escape ->
           LET keep == /\ s.escapedstate \in shlex_quotes
                       /\ c # s.state /\ c # s.escapedstate
               tok  == IF keep THEN Append(s.token, s.state) ELSE s.token
           IN  shlex_read(line, i + 1,
                          [s EXCEPT !.token = Append(tok, c), !.state = s.escapedstate])
      [] OTHER -> \* state "a"
           IF c \in shlex_whitespace
           THEN shlex_read(line, i + 1,
                           IF Len(s.token) > 0 \/ s.quoted
                           THEN emit ELSE [s EXCEPT !.state = " "])
           ELSE IF c \in shlex_quotes
           THEN shlex_read(line, i + 1, [s EXCEPT !.state = c])
           ELSE IF c \in shlex_escape
           THEN shlex_read(line, i + 1, [s EXCEPT !.escapedstate = "a", !.state = c])
           ELSE shlex_read(line, i + 1, [s EXCEPT !.token = Append(s.token, c)])

\* [ok, tokens, msg]: ok = FALSE is the ParseError raised from ValueError
tokenize(line) ==
    shlex_read(line, 1,
               [state |-> " ", escapedstate |-> " ", token |-> <<>>,
                quoted |-> FALSE, out |-> <<>>])

(***************************************************************************)
(* Values and errors                                                       *)
(***************************************************************************)
\* a Python operand value: an int or a str
IntVal(n) == [t |-> "int", n |-> n, s |-> <<>>]
StrVal(s) == [t |-> "str", n |-> 0, s |-> s]

\* an exception and what its message names: line and first are 0 when the
\* message carries no such line number
Err(kind, line, first, name, names) ==
    [kind |-> kind, line |-> line, first |-> first, name |-> name, names |-> names]

NoError == Err("none", 0, 0, <<>>, <<>>)

EmptyDict == [k \in {} |-> 0]

\* d[k] = v
SetItem(d, k, v) == (k :> v) @@ d

(***************************************************************************)
(* compiler/parser.py                                                      *)
(***************************************************************************)
SIP == <<"S", "I", "P">>
EMBER == <<"E", "M", "B", "E", "R">>
TWIST == <<"T", "W", "I", "S", "T">>
DRIFT == <<"D", "R", "I", "F", "T">>
GLINT_ZERO == <<"G", "L", "I", "N", "T", ".", "Z", "E", "R", "O">>
GLINT_POS == <<"G", "L", "I", "N", "T", ".", "P", "O", "S">>
FLASH == <<"F", "L", "A", "S", "H">>
QUIET == <<"Q", "U", "I", "E", "T">>

OPCODE_TABLE ==
    (SIP :> <<>>) @@ (EMBER :> <<"int">>) @@ (TWIST :> <<"int">>) @@
    (DRIFT :> <<"label">>) @@ (GLINT_ZERO :> <<"label">>) @@
    (GLINT_POS :> <<"label">>) @@ (FLASH :> <<"string">>) @@ (QUIET :> <<>>)

\* the test of parse_operand and split_labels on a label name
p_bad_label(label) ==
    \/ isdigit(label[1])
    \/ \E i \in 1..Len(label) : label[i] \notin LABEL_CHARS

\* parse_operand without the test for the empty string literal
parse_operand_m(raw, kind) ==
    CASE kind = "int" ->
           LET r == py_int(raw)
           IN  IF r.ok THEN [ok |-> TRUE, val |-> IntVal(r.n), err |-> NoError]
               ELSE [ok |-> FALSE, val |-> IntVal(0),
                     err |-> Err("invalid_integer", 0, 0, raw, <<>>)]
      [] kind = "label" ->
           IF Len(raw) = 0 \/ p_bad_label(raw)
           THEN [ok |-> FALSE, val |-> IntVal(0),
                 err |-> Err("invalid_label_name", 0, 0, raw, <<>>)]
           ELSE [ok |-> TRUE, val |-> StrVal(raw), err |-> NoError]
      [] kind = "string" -> [ok |-> TRUE, val |-> StrVal(raw), err |-> NoError]
      [] OTHER ->
           [ok |-> FALSE, val |-> IntVal(0),
            err |-> Err("unsupported_kind", 0, 0, <<>>, <<>>)]

\* [ok, val, err]
parse_operand(raw, kind) ==
    CASE kind = "int" ->
           LET r == py_int(raw)
           IN  IF r.ok THEN [ok |-> TRUE, val |-> IntVal(r.n), err |-> NoError]
               ELSE [ok |-> FALSE, val |-> IntVal(0),
                     err |-> Err("invalid_integer", 0, 0, raw, <<>>)]
      [] kind = "label" ->
           IF Len(raw) = 0 \/ p_bad_label(raw)
           THEN [ok |-> FALSE, val |-> IntVal(0),
                 err |-> Err("invalid_label_name", 0, 0, raw, <<>>)]
           ELSE [ok |-> TRUE, val |-> StrVal(raw), err |-> NoError]
      [] kind = "string" ->
           IF raw = <<>>
           THEN [ok |-> FALSE, val |-> IntVal(0),
                 err |-> Err("empty_string", 0, 0, <<>>, <<>>)]
           ELSE [ok |-> TRUE, val |-> StrVal(raw), err |-> NoError]
      [] OTHER ->
           [ok |-> FALSE, val |-> IntVal(0),
            err |-> Err("unsupported_kind", 0, 0, <<>>, <<>>)]

\* the loop of split_labels from token i on; acc: [labels, remainder, err]
RECURSIVE split_labels_from(_, _, _, _)
split_labels_from(tokens, i, line, acc) ==
    IF i > Len(tokens) THEN acc
    ELSE LET token == tokens[i]
             label == SubSeq(token, 1, Len(token) - 1)
         IN
         IF endswith(token, ":")
         THEN IF Len(label) = 0
              THEN [acc EXCEPT !.err = Err("empty_label", line, 0, <<>>, <<>>)]
              ELSE IF p_bad_label(label)
              THEN [acc EXCEPT !.err = Err("invalid_label", line, 0, label, <<>>)]
              ELSE IF \E k \in 1..Len(acc.labels) : acc.labels[k] = label
              THEN [acc EXCEPT !.err = Err("label_repeated", line, 0, label, <<>>)]
              ELSE split_labels_from(tokens, i + 1, line,
                                     [acc EXCEPT !.labels = Append(acc.labels, label)])
         ELSE split_labels_from(tokens, i + 1, line,
                                [acc EXCEPT !.remainder = Append(acc.remainder, token)])

split_labels(tokens, line) ==
    split_labels_from(tokens, 1, line,
                      [labels |-> <<>>, remainder |-> <<>>, err |-> NoError])

\* [parse_operand(raw, kind) for raw, kind in zip(operands, operand_kinds)];
\* acc: [vals, err]
RECURSIVE parse_operands(_, _, _, _)
parse_operands(operands, kinds, i, acc) ==
    IF i > Len(operands) \/ i > Len(kinds) THEN acc
    ELSE LET r == parse_operand(operands[i], kinds[i])
         IN  IF r.ok
             THEN parse_operands(operands, kinds, i + 1,
                                 [acc EXCEPT !.vals = Append(acc.vals, r.val)])
             ELSE [acc EXCEPT !.err = r.err]

\* the loop over pending_labels that fills label_index and label_line;
\* st: the locals of parse_program, attached: attached_labels
RECURSIVE attach_labels(_, _, _, _)
attach_labels(st, i, line, attached) ==
    IF i > Len(st.pending_labels) THEN [st |-> st, attached |-> attached]
    ELSE LET label == st.pending_labels[i][1]
             defined_line == st.pending_labels[i][2]
         IN  IF label \in DOMAIN st.label_index
             THEN [st |-> [st EXCEPT !.status = "failed",
                                     !.err = Err("label_reused", line,
                                                 st.label_line[label], label, <<>>)],
                   attached |-> attached]
             ELSE attach_labels(
                      [st EXCEPT
                         !.label_index = SetItem(st.label_index, label, Len(st.instructions)),
                         !.label_line = SetItem(st.label_line, label, defined_line)],
                      i + 1, line, Append(attached, label))

Fail(st, err) == [st EXCEPT !.status = "failed", !.err = err]

\* pending_labels = [(label, line_no) for label in labels]: an assignment for extend
extend_pending_m(pending_labels, labels, line) ==
    [k \in 1..Len(labels) |-> <<labels[k], line>>]

\* pending_labels.extend((label, line_no) for label in labels)
extend_pending(pending_labels, labels, line) ==
    pending_labels \o [k \in 1..Len(labels) |-> <<labels[k], line>>]

\* one pass of the loop of parse_program over raw_line, numbered line
parse_line(st, raw_line, line) ==
    LET clean == strip(strip_comments(raw_line))
        lexed == tokenize(clean)
        tokens == lexed.tokens
        split == split_labels(tokens, line)
        payload == split.remainder
        st1 == [st EXCEPT !.pending_labels =
                   extend_pending(st.pending_labels, split.labels, line)]
        opcode == payload[1]
        operand_kinds == OPCODE_TABLE[opcode]
        operands == Tail(payload)
        parsed == parse_operands(operands, operand_kinds, 1, [vals |-> <<>>, err |-> NoError])
        att == attach_labels(st1, 1, line, <<>>)
        instruction == [op |-> opcode, args |-> parsed.vals, line |-> line,
                        labels |-> att.attached]
    IN
    IF clean = <<>> THEN st
    ELSE IF ~lexed.ok THEN Fail(st, Err(lexed.msg, 0, 0, <<>>, <<>>))
    ELSE IF tokens = <<>> THEN st
    ELSE IF split.err # NoError THEN Fail(st, split.err)
    ELSE IF payload = <<>> THEN st1
    ELSE IF opcode \notin DOMAIN OPCODE_TABLE
         THEN Fail(st1, Err("unknown_opcode", line, 0, opcode, <<>>))
    ELSE IF Len(operands) # Len(operand_kinds)
         THEN Fail(st1, Err("arity", line, 0, opcode, <<>>))
    ELSE IF parsed.err # NoError THEN Fail(st1, parsed.err)
    ELSE IF att.st.status = "failed" THEN att.st
    ELSE [att.st EXCEPT !.instructions = Append(att.st.instructions, instruction),
                        !.pending_labels = <<>>]

\* the label -> index table derived from the labels of the instructions:
\* the loops of validate_labels, build_payload and assemble
RECURSIVE label_table_of(_, _, _)
label_table_of(instructions, idx, table) ==
    IF idx > Len(instructions) THEN table
    ELSE LET labels == instructions[idx].labels
             add[k \in 0..Len(labels)] ==
                 IF k = 0 THEN table ELSE SetItem(add[k - 1], labels[k], idx - 1)
         IN  label_table_of(instructions, idx + 1, add[Len(labels)])

\* the label operands of the instructions
referenced_labels(instructions) ==
    UNION {LET instr == instructions[i]
               operand_kinds == OPCODE_TABLE[instr.op]
           IN  {instr.args[k].s :
                   k \in {j \in 1..Len(instr.args) :
                            j <= Len(operand_kinds) /\ operand_kinds[j] = "label"}}
           : i \in DOMAIN instructions}

\* NoError, or the ParseError of validate_labels
validate_labels(instructions) ==
    LET label_index == label_table_of(instructions, 1, EmptyDict)
        missing == referenced_labels(instructions) \ DOMAIN label_index
    IN  IF missing # {} THEN Err("undefined_labels", 0, 0, <<>>, sorted(missing))
        ELSE NoError

\* parse_program after its loop
parse_end(st) ==
    IF st.pending_labels # <<>>
    THEN Fail(st, Err("dangling_label", 0, 0, st.pending_labels[1][1], <<>>))
    ELSE LET e == validate_labels(st.instructions)
         IN  IF e # NoError THEN Fail(st, e) ELSE [st EXCEPT !.status = "returned"]

\* the locals of parse_program before its loop
parse_start ==
    [instructions |-> <<>>, pending_labels |-> <<>>, label_index |-> EmptyDict,
     label_line |-> EmptyDict, status |-> "loop", err |-> NoError]

(***************************************************************************)
(* compiler/compiler.py                                                    *)
(***************************************************************************)
\* LABEL_PATTERN.match(token) for ^[A-Za-z_][\w.-]*$
LABEL_PATTERN(token) ==
    /\ Len(token) > 0
    /\ token[1] \in AsciiLetters \cup {"_"}
    /\ \A i \in 2..Len(token) : token[i] \in UnicodeWord \cup {".", "-"}

\* the operand_parsers: [ok, val, err]
parse_int(token) ==
    LET r == py_int(token)
    IN  IF r.ok THEN [ok |-> TRUE, val |-> IntVal(r.n), err |-> NoError]
        ELSE [ok |-> FALSE, val |-> IntVal(0),
              err |-> Err("invalid_integer", 0, 0, token, <<>>)]

parse_label_reference(token) ==
    IF ~LABEL_PATTERN(token)
    THEN [ok |-> FALSE, val |-> IntVal(0),
          err |-> Err("invalid_label_name", 0, 0, token, <<>>)]
    ELSE [ok |-> TRUE, val |-> StrVal(token), err |-> NoError]

parse_string_literal(token) ==
    IF token = <<>>
    THEN [ok |-> FALSE, val |-> IntVal(0), err |-> Err("empty_string", 0, 0, <<>>, <<>>)]
    ELSE [ok |-> TRUE, val |-> StrVal(token), err |-> NoError]

\* OPCODE_SPECS[name].operand_kinds; operand_parsers[i] is the parser of kind i
OPCODE_SPECS ==
    (SIP :> <<>>) @@ (EMBER :> <<"int">>) @@ (TWIST :> <<"int">>) @@
    (DRIFT :> <<"label">>) @@ (GLINT_ZERO :> <<"label">>) @@
    (GLINT_POS :> <<"label">>) @@ (FLASH :> <<"string">>) @@ (QUIET :> <<>>)

operand_parser(kind, token) ==
    CASE kind = "int" -> parse_int(token)
      [] kind = "label" -> parse_label_reference(token)
      [] OTHER -> parse_string_literal(token)

\* the loop over the tokens of a line; st: the locals of parse_program,
\* acc: [st, actual_tokens]
RECURSIVE c_scan_tokens(_, _, _, _)
c_scan_tokens(tokens, i, line, acc) ==
    IF i > Len(tokens) THEN acc
    ELSE LET token == tokens[i]
             label == SubSeq(token, 1, Len(token) - 1)
             st == acc.st
         IN
         IF endswith(token, ":")
         THEN IF ~LABEL_PATTERN(label)
              THEN [acc EXCEPT !.st = Fail(st, Err("invalid_label", line, 0, label, <<>>))]
              ELSE IF label \in DOMAIN st.defined_labels
              THEN [acc EXCEPT !.st = Fail(st, Err("label_redefined", line,
                                                   st.defined_labels[label], label, <<>>))]
              ELSE c_scan_tokens(tokens, i + 1, line,
                       [acc EXCEPT
                          !.st.defined_labels = SetItem(st.defined_labels, label, line),
                          !.st.pending_labels = Append(st.pending_labels, <<label, line>>)])
         ELSE c_scan_tokens(tokens, i + 1, line,
                            [acc EXCEPT !.actual_tokens = Append(acc.actual_tokens, token)])

\* the conversion loop; the error of a converter is re-raised with the line
RECURSIVE c_convert(_, _, _, _, _)
c_convert(operand_tokens, kinds, i, line, acc) ==
    IF i > Len(operand_tokens) \/ i > Len(kinds) THEN acc
    ELSE LET r == operand_parser(kinds[i], operand_tokens[i])
         IN  IF r.ok
             THEN c_convert(operand_tokens, kinds, i + 1, line,
                            [acc EXCEPT !.vals = Append(acc.vals, r.val)])
             ELSE [acc EXCEPT !.err = [r.err EXCEPT !.line = line]]

\* one pass of the loop of parse_program over raw_line, numbered line
c_parse_line(st, raw_line, line) ==
    LET cleaned == strip(strip_comments(raw_line))
        lexed == tokenize(cleaned)
        tokens == lexed.tokens
        scan == c_scan_tokens(tokens, 1, line, [st |-> st, actual_tokens |-> <<>>])
        st1 == scan.st
        actual_tokens == scan.actual_tokens
        opcode == actual_tokens[1]
        spec == OPCODE_SPECS[opcode]
        operand_tokens == Tail(actual_tokens)
        conv == c_convert(operand_tokens, spec, 1, line, [vals |-> <<>>, err |-> NoError])
        instruction_labels == [k \in 1..Len(st1.pending_labels) |-> st1.pending_labels[k][1]]
        instruction == [opcode |-> opcode, operands |-> conv.vals,
                        labels |-> instruction_labels, line |-> line]
    IN
    IF cleaned = <<>> THEN st
    ELSE IF ~lexed.ok THEN Fail(st, Err(lexed.msg, 0, 0, <<>>, <<>>))
    ELSE IF tokens = <<>> THEN st
    ELSE IF st1.status = "failed" THEN st1
    ELSE IF actual_tokens = <<>> THEN st1
    ELSE IF opcode \notin DOMAIN OPCODE_SPECS
         THEN Fail(st1, Err("unknown_opcode", line, 0, opcode, <<>>))
    ELSE IF Len(operand_tokens) # Len(spec)
         THEN Fail(st1, Err("arity", line, 0, opcode, <<>>))
    ELSE IF conv.err # NoError THEN Fail(st1, conv.err)
    ELSE [st1 EXCEPT !.instructions = Append(st1.instructions, instruction),
                     !.pending_labels = <<>>]

build_label_index(instructions) == label_table_of(instructions, 1, EmptyDict)

c_referenced(instructions) ==
    UNION {LET instruction == instructions[i]
               spec == OPCODE_SPECS[instruction.opcode]
           IN  {instruction.operands[k].s :
                   k \in {j \in 1..Len(instruction.operands) :
                            j <= Len(spec) /\ spec[j] = "label"}}
           : i \in DOMAIN instructions}

validate_label_references(instructions) ==
    LET defined == build_label_index(instructions)
        missing == c_referenced(instructions) \ DOMAIN defined
    IN  IF missing # {} THEN Err("undefined_labels", 0, 0, <<>>, sorted(missing))
        ELSE NoError

c_parse_end(st) ==
    IF st.pending_labels # <<>>
    THEN Fail(st, Err("dangling_label", st.pending_labels[1][2], 0,
                      st.pending_labels[1][1], <<>>))
    ELSE LET e == validate_label_references(st.instructions)
         IN  IF e # NoError THEN Fail(st, e) ELSE [st EXCEPT !.status = "returned"]

c_parse_start ==
    [instructions |-> <<>>, pending_labels |-> <<>>, defined_labels |-> EmptyDict,
     status |-> "loop", err |-> NoError]

(***************************************************************************)
(* compiler/assembler.py and compiler/linker.py                            *)
(***************************************************************************)
\* assemble with enumerate(instructions, start=1)
assemble_m(instructions) ==
    LET t == label_table_of(instructions, 1, EmptyDict)
    IN  [instructions |-> instructions,
         label_table |-> [l \in DOMAIN t |-> t[l] + 1]]

assemble(instructions) ==
    [instructions |-> instructions,
     label_table |-> label_table_of(instructions, 1, EmptyDict)]

\* resolve_operand taking the table for 1-based positions
resolve_operand_m(kind, value, labels) ==
    IF kind # "label" THEN [ok |-> TRUE, val |-> value, err |-> NoError]
    ELSE IF value.s \notin DOMAIN labels
    THEN [ok |-> FALSE, val |-> value, err |-> Err("link_undefined", 0, 0, value.s, <<>>)]
    ELSE [ok |-> TRUE, val |-> IntVal(labels[value.s] + 1), err |-> NoError]

\* [ok, val, err]
resolve_operand(kind, value, labels) ==
    IF kind # "label" THEN [ok |-> TRUE, val |-> value, err |-> NoError]
    ELSE IF value.s \notin DOMAIN labels
    THEN [ok |-> FALSE, val |-> value, err |-> Err("link_undefined", 0, 0, value.s, <<>>)]
    ELSE [ok |-> TRUE, val |-> IntVal(labels[value.s]), err |-> NoError]

\* the resolved_args of one instruction; acc: [vals, err]
RECURSIVE resolve_args(_, _, _, _, _)
resolve_args(kinds, args, labels, i, acc) ==
    IF i > Len(kinds) \/ i > Len(args) THEN acc
    ELSE LET r == resolve_operand(kinds[i], args[i], labels)
         IN  IF r.ok
             THEN resolve_args(kinds, args, labels, i + 1,
                               [acc EXCEPT !.vals = Append(acc.vals, r.val)])
             ELSE [acc EXCEPT !.err = r.err]

\* [operations, err]: err # NoError is the LinkError, and no Program is returned
RECURSIVE link_from(_, _, _)
link_from(u, i, operations) ==
    IF i > Len(u.instructions) THEN [operations |-> operations, err |-> NoError]
    ELSE LET instruction == u.instructions[i]
             opcode == instruction.op
             operand_kinds == OPCODE_TABLE[opcode]
             res == resolve_args(operand_kinds, instruction.args, u.label_table, 1,
                                 [vals |-> <<>>, err |-> NoError])
         IN  IF res.err # NoError THEN [operations |-> <<>>, err |-> res.err]
             ELSE link_from(u, i + 1,
                            Append(operations,
                                   [opcode |-> opcode, args |-> res.vals,
                                    line |-> instruction.line]))

\* link with operations.insert(0, ...) for operations.append(...)
link_m(u) ==
    LET r == link_from(u, 1, <<>>)
        n == Len(r.operations)
    IN  [r EXCEPT !.operations = [k \in 1..n |-> r.operations[n + 1 - k]]]

link(u) == link_from(u, 1, <<>>)

(***************************************************************************)
(* compiler/runtime.py                                                     *)
(***************************************************************************)
\* bound on the number of operations one run executes
MaxSteps == 6

\* the integers an input provider returns
InputValues == {-1, 0, 1}

\* bound on the number of malformed lines entered at the prompts of one run
MaxPrompts == 2

\* the lines entered at the prompt SIP> : 0, -1, 1, x and the empty line
RawEntries == {<<"0">>, <<"-", "1">>, <<"1">>, <<"x">>, <<>>}

\* _as_int reading every operand as 0
as_int_m(args, opcode, line) == [ok |-> TRUE, n |-> 0, err |-> NoError]

\* _as_int(args, opcode, line, index=0): [ok, n, err]
as_int(args, opcode, line) ==
    IF Len(args) < 1
    THEN [ok |-> FALSE, n |-> 0, err |-> Err("missing_operand", line, 0, opcode, <<>>)]
    ELSE LET value == args[1]
         IN  IF value.t = "int" THEN [ok |-> TRUE, n |-> value.n, err |-> NoError]
             ELSE IF value.t = "str"
             THEN LET r == py_int(value.s)
                  IN  IF r.ok THEN [ok |-> TRUE, n |-> r.n, err |-> NoError]
                      ELSE [ok |-> FALSE, n |-> 0,
                            err |-> Err("expects_integer", line, 0, opcode, <<>>)]
             ELSE [ok |-> FALSE, n |-> 0,
                   err |-> Err("expects_int_like", line, 0, opcode, <<>>)]

\* _as_str(args, opcode, line, index=0): [ok, s, err]
as_str(args, opcode, line) ==
    IF Len(args) < 1
    THEN [ok |-> FALSE, s |-> <<>>, err |-> Err("missing_operand", line, 0, opcode, <<>>)]
    ELSE LET value == args[1]
         IN  IF value.t = "str" THEN [ok |-> TRUE, s |-> value.s, err |-> NoError]
             ELSE [ok |-> FALSE, s |-> <<>>,
                   err |-> Err("expects_string", line, 0, opcode, <<>>)]

\* emit that never calls the sink
emit_m(m, value) == [m EXCEPT !.outputs = Append(@, value)]

\* emit(value): outputs.append(value), then output_sink(value) if there is one
emit(m, value) ==
    [m EXCEPT !.outputs = Append(@, value),
              !.sink = IF m.output_sink THEN Append(@, value) ELSE @]

\* the test of the loop, leaving it one operation early
loop_test_m(ops, ip) == IF ip < Len(ops) - 1 THEN "loop" ELSE "returned"

\* while ip < len(ops): ... return outputs
loop_test(ops, ip) == IF ip < Len(ops) THEN "loop" ELSE "returned"

\* stack[-1] -= n, as a pop
twist_m(stack, n) == SubSeq(stack, 1, Len(stack) - 1)

\* stack[-1] -= n
twist(stack, n) == [stack EXCEPT ![Len(stack)] = @ - n]

\* top with the empty stack read as 1
stack_top_m(stack) == IF stack # <<>> THEN stack[Len(stack)] ELSE 1

\* top = stack[-1] if stack else 0
stack_top(stack) == IF stack # <<>> THEN stack[Len(stack)] ELSE 0

\* the locals of run_program before the loop; executed is the list of the
\* values of ip at which an operation was executed, reads counts the calls of
\* input_fn and sink lists the calls of output_sink; input_fn is the
\* input_provider if one is passed and _prompt_for_int otherwise, and
\* prompts counts the malformed lines _prompt_for_int was given
run_start(ops, input_provider, output_sink) ==
    [stack |-> <<>>, ip |-> 0, outputs |-> <<>>,
     input_provider |-> input_provider, output_sink |-> output_sink,
     sink |-> <<>>, reads |-> 0, prompts |-> 0, executed |-> <<>>,
     status |-> loop_test(ops, 0), err |-> NoError]

\* run_program was not called
vm_idle == [run_start(<<>>, FALSE, FALSE) EXCEPT !.status = "idle"]

\* one pass of the loop of run_program, input_fn() returning v if it is called
\* (it is called by SIP alone)
execute(m, ops, v) ==
    LET op     == ops[m.ip + 1]
        opcode == op.opcode
        ran    == [m EXCEPT !.executed = Append(@, m.ip)]
        raise(e)     == [ran EXCEPT !.status = "raised", !.err = e]
        goto(st, ip) == [st EXCEPT !.ip = ip, !.status = loop_test(ops, ip)]
        a      == as_int(op.args, opcode, op.line)
        str    == as_str(op.args, opcode, op.line)
        top    == stack_top(m.stack)
    IN  CASE opcode = SIP ->
                goto([ran EXCEPT !.stack = Append(@, v), !.reads = @ + 1], m.ip + 1)
          [] opcode = EMBER ->
                IF a.ok THEN goto([ran EXCEPT !.stack = Append(@, a.n)], m.ip + 1)
                ELSE raise(a.err)
          [] opcode = TWIST ->
                IF m.stack = <<>>
                THEN raise(Err("stack_underflow", op.line, 0, opcode, <<>>))
                ELSE IF a.ok THEN goto([ran EXCEPT !.stack = twist(@, a.n)], m.ip + 1)
                ELSE raise(a.err)
          [] opcode = DRIFT ->
                IF a.ok THEN goto(ran, a.n) ELSE raise(a.err)
          [] opcode = GLINT_ZERO ->
                IF a.ok THEN goto(ran, IF top = 0 THEN a.n ELSE m.ip + 1)
                ELSE raise(a.err)
          [] opcode = GLINT_POS ->
                IF a.ok THEN goto(ran, IF top > 0 THEN a.n ELSE m.ip + 1)
                ELSE raise(a.err)
          [] opcode = FLASH ->
                IF str.ok THEN goto(emit(ran, str.s), m.ip + 1) ELSE raise(str.err)
          [] opcode = QUIET -> [ran EXCEPT !.status = "returned"]
          [] OTHER -> raise(Err("unknown_opcode", op.line, 0, opcode, <<>>))

(***************************************************************************)
(* Source files                                                            *)
(***************************************************************************)
\* bounds on the number of lines of a source file
MaxLines == 3

MaxLexLines == 2

\* lines about labels, jumps and comments
StructLines ==
    { \* (empty line)
      <<>>,
      \* SIP
      <<"S", "I", "P">>,
      \* # c
      <<"#", " ", "c">>,
      \* A:
      <<"A", ":">>,
      \* B:
      <<"B", ":">>,
      \* A: EMBER 1
      <<"A", ":", " ", "E", "M", "B", "E", "R", " ", "1">>,
      \* B: a: QUIET
      <<"B", ":", " ", "a", ":", " ", "Q", "U", "I", "E", "T">>,
      \* DRIFT A
      <<"D", "R", "I", "F", "T", " ", "A">>,
      \* GLINT.ZERO B
      <<"G", "L", "I", "N", "T", ".", "Z", "E", "R", "O", " ", "B">>,
      \* GLINT.POS a
      <<"G", "L", "I", "N", "T", ".", "P", "O", "S", " ", "a">>,
      \* A: A: TWIST 2
      <<"A", ":", " ", "A", ":", " ", "T", "W", "I", "S", "T", " ", "2">>,
      \* A: BOGUS
      <<"A", ":", " ", "B", "O", "G", "U", "S">>,
      \* FLASH "hi"
      <<"F", "L", "A", "S", "H", " ", "\"", "h", "i", "\"">>,
      \* B: TWIST -2 // t
      <<"B", ":", " ", "T", "W", "I", "S", "T", " ", "-", "2", " ", "/", "/", " ", "t">> }

\* lines about opcodes, operands, label names and string literals
LexLines ==
    { \* BOGUS
      <<"B", "O", "G", "U", "S">>,
      \* ember 1
      <<"e", "m", "b", "e", "r", " ", "1">>,
      \* EMBER
      <<"E", "M", "B", "E", "R">>,
      \* SIP 1
      <<"S", "I", "P", " ", "1">>,
      \* EMBER 5 6
      <<"E", "M", "B", "E", "R", " ", "5", " ", "6">>,
      \* QUIET
      <<"Q", "U", "I", "E", "T">>,
      \* EMBER x
      <<"E", "M", "B", "E", "R", " ", "x">>,
      \* EMBER 1_0
      <<"E", "M", "B", "E", "R", " ", "1", "_", "0">>,
      \* EMBER " 5 "
      <<"E", "M", "B", "E", "R", " ", "\"", " ", "5", " ", "\"">>,
      \* EMBER +7
      <<"E", "M", "B", "E", "R", " ", "+", "7">>,
      \* TWIST -3
      <<"T", "W", "I", "S", "T", " ", "-", "3">>,
      \* FLASH ""
      <<"F", "L", "A", "S", "H", " ", "\"", "\"">>,
      \* L: SIP
      <<"L", ":", " ", "S", "I", "P">>,
      \* DRIFT L
      <<"D", "R", "I", "F", "T", " ", "L">>,
      \* .a: SIP
      <<".", "a", ":", " ", "S", "I", "P">>,
      \* -a: SIP
      <<"-", "a", ":", " ", "S", "I", "P">>,
      \* 1a: SIP
      <<"1", "a", ":", " ", "S", "I", "P">>,
      \* a$: SIP
      <<"a", "$", ":", " ", "S", "I", "P">>,
      \* a<U+00E9>: SIP
      <<"a", "U+00E9", ":", " ", "S", "I", "P">>,
      \* : SIP
      <<":", " ", "S", "I", "P">>,
      \* a.b-1_: SIP
      <<"a", ".", "b", "-", "1", "_", ":", " ", "S", "I", "P">>,
      \* DRIFT .a
      <<"D", "R", "I", "F", "T", " ", ".", "a">>,
      \* DRIFT -a
      <<"D", "R", "I", "F", "T", " ", "-", "a">>,
      \* DRIFT 1a
      <<"D", "R", "I", "F", "T", " ", "1", "a">>,
      \* DRIFT a$
      <<"D", "R", "I", "F", "T", " ", "a", "$">>,
      \* DRIFT a<U+00E9>
      <<"D", "R", "I", "F", "T", " ", "a", "U+00E9">>,
      \* DRIFT a.b-1_
      <<"D", "R", "I", "F", "T", " ", "a", ".", "b", "-", "1", "_">>,
      \* DRIFT ""
      <<"D", "R", "I", "F", "T", " ", "\"", "\"">>,
      \* FLASH "123"
      <<"F", "L", "A", "S", "H", " ", "\"", "1", "2", "3", "\"">>,
      \* FLASH "QUIET"
      <<"F", "L", "A", "S", "H", " ", "\"", "Q", "U", "I", "E", "T", "\"">>,
      \* FLASH "L"
      <<"F", "L", "A", "S", "H", " ", "\"", "L", "\"">>,
      \* FLASH "a:"
      <<"F", "L", "A", "S", "H", " ", "\"", "a", ":", "\"">>,
      \* FLASH "x:" "y"
      <<"F", "L", "A", "S", "H", " ", "\"", "x", ":", "\"", " ", "\"", "y", "\"">>,
      \* FLASH "a b"
      <<"F", "L", "A", "S", "H", " ", "\"", "a", " ", "b", "\"">>,
      \* FLASH "a;b" #c
      <<"F", "L", "A", "S", "H", " ", "\"", "a", ";", "b", "\"", " ", "#", "c">>,
      \* FLASH "\"#"   (the literal is the two characters "# )
      <<"F", "L", "A", "S", "H", " ", "\"", "\\", "\"", "#", "\"">> }

\* the source files of at most n lines over the lines of pool
Sources(pool, n) == UNION {[1..k -> pool] : k \in 0..n}

(***************************************************************************)
(* main.py, and the main of compiler.py (parse only)                       *)
(***************************************************************************)
NoUnit == [instructions |-> <<>>, label_table |-> EmptyDict]

\* a line written by main: a stage tag, or the text of one output
Line(tag, text) == [tag |-> tag, text |-> text]

\* nothing written; exit_code is -1 until main returns; outputs is the list
\* main received from run_program
cli_start == [stdout |-> <<>>, stderr |-> <<>>, exit_code |-> -1, outputs |-> <<>>]

\* print(line), or print(line, file=sys.stderr)
print_to(c, stream, line) ==
    IF stream = "stderr" THEN [c EXCEPT !.stderr = Append(@, line)]
    ELSE [c EXCEPT !.stdout = Append(@, line)]

\* return code
return_code(c, code) == [c EXCEPT !.exit_code = code]

\* no call of main after this one, none before
no_calls == [todo |-> <<>>, done |-> <<>>]

\* the Banker's menu is not running
no_bank == [running |-> FALSE]

InitOver(pool, n) ==
    /\ impl \in {"parser", "compiler"}
    /\ src \in Sources(pool, n)
    /\ line_no = 0
    /\ ps = IF impl = "parser" THEN parse_start ELSE c_parse_start
    /\ pc = "parse"
    /\ unit = NoUnit
    /\ program = <<>>
    /\ link_err = NoError
    /\ vm = vm_idle
    /\ cli = cli_start
    /\ calls = no_calls
    /\ bank = no_bank

Init == InitOver(StructLines, MaxLines)

InitLex == InitOver(LexLines, MaxLexLines)

\* AfterParse going on to assemble after a ParseError
AfterParse_m(st) ==
    IF st.status \in {"failed", "returned"}
    THEN (IF impl = "parser" THEN "assemble" ELSE "exit")
    ELSE "parse"

\* where main goes when parse_program has raised or returned
AfterParse(st) ==
    IF st.status = "failed" THEN "exit"
    ELSE IF st.status = "returned" THEN (IF impl = "parser" THEN "assemble" ELSE "exit")
    ELSE "parse"

\* what main writes when parse_program has raised or returned: main.py
\* prints the error and "[parser] complete" alike; the main of compiler.py
\* prints the error to sys.stderr and the JSON payload to standard output
ReportParse(c, st) ==
    IF st.status = "failed"
    THEN return_code(print_to(c, IF impl = "parser" THEN "stdout" ELSE "stderr",
                              Line("[parse-error]", <<>>)), 1)
    ELSE IF st.status = "returned"
    THEN (IF impl = "parser" THEN print_to(c, "stdout", Line("[parser] complete", <<>>))
          ELSE return_code(print_to(c, "stdout", Line("payload", <<>>)), 0))
    ELSE c

\* parser.py: one pass of the loop of parse_program
ParseLine ==
    /\ impl = "parser" /\ pc = "parse" /\ ps.status = "loop"
    /\ line_no < Len(src)
    /\ line_no' = line_no + 1
    /\ ps' = parse_line(ps, src[line_no + 1], line_no + 1)
    /\ pc' = AfterParse(ps')
    /\ cli' = ReportParse(cli, ps')
    /\ UNCHANGED <<impl, src, unit, program, link_err, vm, calls, bank>>

\* parser.py: parse_program after the last line
ParseEnd ==
    /\ impl = "parser" /\ pc = "parse" /\ ps.status = "loop"
    /\ line_no = Len(src)
    /\ ps' = parse_end(ps)
    /\ pc' = AfterParse(ps')
    /\ cli' = ReportParse(cli, ps')
    /\ UNCHANGED <<impl, src, line_no, unit, program, link_err, vm, calls, bank>>

\* compiler.py: one pass of the loop of parse_program
CParseLine ==
    /\ impl = "compiler" /\ pc = "parse" /\ ps.status = "loop"
    /\ line_no < Len(src)
    /\ line_no' = line_no + 1
    /\ ps' = c_parse_line(ps, src[line_no + 1], line_no + 1)
    /\ pc' = AfterParse(ps')
    /\ cli' = ReportParse(cli, ps')
    /\ UNCHANGED <<impl, src, unit, program, link_err, vm, calls, bank>>

\* compiler.py: parse_program after the last line
CParseEnd ==
    /\ impl = "compiler" /\ pc = "parse" /\ ps.status = "loop"
    /\ line_no = Len(src)
    /\ ps' = c_parse_end(ps)
    /\ pc' = AfterParse(ps')
    /\ cli' = ReportParse(cli, ps')
    /\ UNCHANGED <<impl, src, line_no, unit, program, link_err, vm, calls, bank>>

\* main.py: assembly = assemble(instructions)
Assemble ==
    /\ pc = "assemble"
    /\ unit' = assemble(ps.instructions)
    /\ pc' = "link"
    /\ cli' = print_to(cli, "stdout", Line("[assembler] complete", <<>>))
    /\ UNCHANGED <<impl, src, line_no, ps, program, link_err, vm, calls, bank>>

\* main.py: program = link(assembly), or the LinkError; then run_program is
\* called with the program alone (no output sink)
Link ==
    /\ pc = "link"
    /\ LET r == link(unit)
       IN  /\ program' = r.operations
           /\ link_err' = r.err
           /\ pc' = IF r.err # NoError THEN "exit" ELSE "run"
           /\ cli' = IF r.err # NoError
                     THEN return_code(print_to(cli, "stdout", Line("[link-error]", <<>>)), 1)
                     ELSE print_to(cli, "stdout", Line("[linker] complete", <<>>))
           /\ vm' = IF r.err # NoError THEN vm ELSE run_start(r.operations, FALSE, FALSE)
    /\ UNCHANGED <<impl, src, line_no, ps, unit, calls, bank>>

\* runtime.py: one pass of the loop of run_program, a SIP calling the
\* input_provider that was passed
Step ==
    /\ pc = "run" /\ vm.status = "loop"
    /\ Len(vm.executed) < MaxSteps
    /\ program[vm.ip + 1].opcode = SIP => vm.input_provider
    /\ \E v \in (IF program[vm.ip + 1].opcode = SIP THEN InputValues ELSE {0}) :
          vm' = execute(vm, program, v)
    /\ UNCHANGED <<impl, src, line_no, ps, pc, unit, program, link_err, cli, calls, bank>>

\* a malformed line taken as the end of the SIP
retry_m(m) == [m EXCEPT !.prompts = @ + 1, !.ip = @ + 1]

\* _prompt_for_int after a malformed line: the loop goes round, to the next
\* prompt
retry(m) == [m EXCEPT !.prompts = @ + 1]

\* runtime.py: a SIP with no input_provider passed is in _prompt_for_int,
\* which reads a line: int(raw, 10) of a well-formed line is returned and
\* pushed; a malformed line is answered on standard output and the prompt
\* is made again
Prompt ==
    /\ pc = "run" /\ vm.status = "loop"
    /\ Len(vm.executed) < MaxSteps
    /\ program[vm.ip + 1].opcode = SIP /\ ~vm.input_provider
    /\ \E raw \in RawEntries :
          IF py_int(raw).ok
          THEN /\ vm' = execute(vm, program, py_int(raw).n)
               /\ cli' = cli
          ELSE /\ vm.prompts < MaxPrompts
               /\ vm' = retry(vm)
               /\ cli' = print_to(cli, "stdout", Line("Please enter an integer.", <<>>))
    /\ UNCHANGED <<impl, src, line_no, ps, pc, unit, program, link_err, calls, bank>>

\* main.py: run_program has returned its outputs, or raised ExecutionError
RunReturn ==
    /\ pc = "run" /\ vm.status \in {"returned", "raised"}
    /\ cli' = IF vm.status = "raised"
              THEN return_code(print_to(cli, "stdout", Line("[runtime-error]", <<>>)), 1)
              ELSE LET c == print_to(cli, "stdout", Line("[runtime] complete", <<>>))
                   IN  [c EXCEPT !.outputs = vm.outputs,
                                 !.stdout = @ \o [i \in 1..Len(vm.outputs) |->
                                                     Line("", vm.outputs[i])],
                                 !.exit_code = 0]
    /\ pc' = "exit"
    /\ UNCHANGED <<impl, src, line_no, ps, unit, program, link_err, vm, calls, bank>>

Next ==
    \/ ParseLine \/ ParseEnd \/ CParseLine \/ CParseEnd \/ Assemble \/ Link
    \/ Step \/ Prompt \/ RunReturn

Spec == Init /\ [][Next]_vars

SpecLex == InitLex /\ [][Next]_vars

(***************************************************************************)
(* Hand-constructed programs and assembly units                            *)
(***************************************************************************)
\* bound on the number of operations of a hand-constructed program
MaxOps == 3

\* the operations of a program of n operations, jumps targeting 0..n
RunOps(n) ==
    {[opcode |-> SIP, args |-> <<>>, line |-> 0],
     [opcode |-> EMBER, args |-> <<IntVal(1)>>, line |-> 0],
     [opcode |-> TWIST, args |-> <<IntVal(1)>>, line |-> 0],
     [opcode |-> FLASH, args |-> <<StrVal(<<"a">>)>>, line |-> 0],
     [opcode |-> FLASH, args |-> <<StrVal(<<"b">>)>>, line |-> 0],
     [opcode |-> QUIET, args |-> <<>>, line |-> 0]}
    \cup {[opcode |-> j, args |-> <<IntVal(t)>>, line |-> 0] :
             j \in {DRIFT, GLINT_ZERO, GLINT_POS}, t \in 0..n}

\* Program(operations=[...]) with the operations of f, operation i carrying
\* line i
ProgramOf(f) == [i \in DOMAIN f |-> [f[i] EXCEPT !.line = i]]

\* run_program(program, input_provider, output_sink) on a hand-constructed
\* program, with or without an output sink
InitRun ==
    /\ impl = "parser"
    /\ src = <<>>
    /\ line_no = 0
    /\ ps = parse_start
    /\ pc = "run"
    /\ unit = NoUnit
    /\ \E n \in 0..MaxOps : \E f \in [1..n -> RunOps(n)] : program = ProgramOf(f)
    /\ link_err = NoError
    /\ \E output_sink \in BOOLEAN : vm = run_start(program, TRUE, output_sink)
    /\ cli = cli_start
    /\ calls = no_calls
    /\ bank = no_bank

NextRun == Step \/ RunReturn

SpecRun == InitRun /\ [][NextRun]_vars

\* operations for programs that read: SIP, a test of what was read, an
\* output and the end
SipOps ==
    {[opcode |-> SIP, args |-> <<>>, line |-> 0],
     [opcode |-> EMBER, args |-> <<IntVal(1)>>, line |-> 0],
     [opcode |-> GLINT_POS, args |-> <<IntVal(0)>>, line |-> 0],
     [opcode |-> FLASH, args |-> <<StrVal(<<"a">>)>>, line |-> 0],
     [opcode |-> QUIET, args |-> <<>>, line |-> 0]}

\* run_program(program, input_provider) and run_program(program) on a
\* hand-constructed program
InitSip ==
    /\ impl = "parser"
    /\ src = <<>>
    /\ line_no = 0
    /\ ps = parse_start
    /\ pc = "run"
    /\ unit = NoUnit
    /\ \E n \in 0..MaxOps : \E f \in [1..n -> SipOps] : program = ProgramOf(f)
    /\ link_err = NoError
    /\ \E input_provider \in BOOLEAN : vm = run_start(program, input_provider, FALSE)
    /\ cli = cli_start
    /\ calls = no_calls
    /\ bank = no_bank

NextSip == Step \/ Prompt \/ RunReturn

SpecSip == InitSip /\ [][NextSip]_vars

\* operations as a caller can hand them to Program: well-formed ones, one
\* with an opcode outside the table, ones lacking their operand, and ones
\* whose operand is a string where an integer is read, an integer where a
\* string is read, or neither (None)
OddOps ==
    {[opcode |-> EMBER, args |-> <<IntVal(1)>>, line |-> 0],
     [opcode |-> TWIST, args |-> <<IntVal(1)>>, line |-> 0],
     [opcode |-> FLASH, args |-> <<StrVal(<<"a">>)>>, line |-> 0],
     [opcode |-> QUIET, args |-> <<>>, line |-> 0],
     [opcode |-> <<"N", "O", "P">>, args |-> <<>>, line |-> 0],
     [opcode |-> FLASH, args |-> <<IntVal(3)>>, line |-> 0],
     [opcode |-> EMBER, args |-> <<StrVal(<<"x">>)>>, line |-> 0],
     [opcode |-> EMBER, args |-> <<StrVal(<<"5">>)>>, line |-> 0],
     [opcode |-> EMBER, args |-> <<[t |-> "none", n |-> 0, s |-> <<>>]>>, line |-> 0]}
    \cup {[opcode |-> o, args |-> <<>>, line |-> 0] :
             o \in {EMBER, TWIST, DRIFT, GLINT_ZERO, GLINT_POS, FLASH}}

\* run_program(program, input_provider) on a program of such operations
InitOdd ==
    /\ impl = "parser"
    /\ src = <<>>
    /\ line_no = 0
    /\ ps = parse_start
    /\ pc = "run"
    /\ unit = NoUnit
    /\ \E n \in 0..MaxOps : \E f \in [1..n -> OddOps] : program = ProgramOf(f)
    /\ link_err = NoError
    /\ vm = run_start(program, TRUE, FALSE)
    /\ cli = cli_start
    /\ calls = no_calls
    /\ bank = no_bank

SpecOdd == InitOdd /\ [][NextRun]_vars

\* bound on the number of instructions of a hand-constructed unit
MaxUnitLen == 2

\* instructions as parse_program builds them, without labels
UnitInstructions ==
    {[op |-> EMBER, args |-> <<IntVal(1)>>, labels |-> <<>>, line |-> 0],
     [op |-> FLASH, args |-> <<StrVal(<<"a">>)>>, labels |-> <<>>, line |-> 0],
     [op |-> QUIET, args |-> <<>>, labels |-> <<>>, line |-> 0]}
    \cup {[op |-> j, args |-> <<StrVal(l)>>, labels |-> <<>>, line |-> 0] :
             j \in {DRIFT, GLINT_ZERO, GLINT_POS}, l \in {<<"X">>, <<"Y">>}}

\* label tables, with and without X and Y
UnitTables ==
    {EmptyDict,
     SetItem(EmptyDict, <<"X">>, 0),
     SetItem(EmptyDict, <<"X">>, 1),
     SetItem(EmptyDict, <<"Y">>, 0),
     SetItem(SetItem(EmptyDict, <<"X">>, 0), <<"Y">>, 1)}

\* AssemblyUnit(instructions=[...], label_table=t) with the instructions of
\* f, instruction i on line i
UnitOf(f, t) ==
    [instructions |-> [i \in DOMAIN f |-> [f[i] EXCEPT !.line = i]], label_table |-> t]

\* link(unit) on a hand-constructed unit, the program then being run
InitUnit ==
    /\ impl = "parser"
    /\ src = <<>>
    /\ line_no = 0
    /\ ps = parse_start
    /\ pc = "link"
    /\ \E n \in 0..MaxUnitLen : \E f \in [1..n -> UnitInstructions] :
          \E t \in UnitTables : unit = UnitOf(f, t)
    /\ program = <<>>
    /\ link_err = NoError
    /\ vm = vm_idle
    /\ cli = cli_start
    /\ calls = no_calls
    /\ bank = no_bank

NextUnit == Link \/ Step \/ RunReturn

SpecUnit == InitUnit /\ [][NextUnit]_vars

(***************************************************************************)
(* Example programs                                                        *)
(***************************************************************************)
\* the end-to-end happy path
HappyPath ==
    <<
      \* EMBER 5
      <<"E", "M", "B", "E", "R", " ", "5">>,
      \* TWIST 2
      <<"T", "W", "I", "S", "T", " ", "2">>,
      \* FLASH "done"
      <<"F", "L", "A", "S", "H", " ", "\"", "d", "o", "n", "e", "\"">>,
      \* QUIET
      <<"Q", "U", "I", "E", "T">>
    >>

\* the conditional branch taken on an empty stack
BranchOnEmpty ==
    <<
      \* GLINT.ZERO L
      <<"G", "L", "I", "N", "T", ".", "Z", "E", "R", "O", " ", "L">>,
      \* FLASH "unreached"
      <<"F", "L", "A", "S", "H", " ", "\"", "u", "n", "r", "e", "a", "c", "h", "e", "d", "\"">>,
      \* DRIFT END
      <<"D", "R", "I", "F", "T", " ", "E", "N", "D">>,
      \* L: FLASH "hit"
      <<"L", ":", " ", "F", "L", "A", "S", "H", " ", "\"", "h", "i", "t", "\"">>,
      \* END: QUIET
      <<"E", "N", "D", ":", " ", "Q", "U", "I", "E", "T">>
    >>

\* the sources left when some lines of s are deleted
Cuts(s) ==
    {[i \in 1..Cardinality(K) |->
         s[CHOOSE k \in K : Cardinality({j \in K : j <= k}) = i]] :
       K \in SUBSET (1..Len(s))}

\* main.py, or the main of compiler.py, on an example program or on what is
\* left of it when lines are deleted
InitEx ==
    /\ impl \in {"parser", "compiler"}
    /\ src \in Cuts(HappyPath) \cup Cuts(BranchOnEmpty)
    /\ line_no = 0
    /\ ps = IF impl = "parser" THEN parse_start ELSE c_parse_start
    /\ pc = "parse"
    /\ unit = NoUnit
    /\ program = <<>>
    /\ link_err = NoError
    /\ vm = vm_idle
    /\ cli = cli_start
    /\ calls = no_calls
    /\ bank = no_bank

NextEx ==
    ParseLine \/ ParseEnd \/ CParseLine \/ CParseEnd \/ Assemble \/ Link \/ Step \/ RunReturn

SpecEx == InitEx /\ [][NextEx]_vars

(***************************************************************************)
(* Several calls of main in one process                                    *)
(***************************************************************************)
\* bound on the number of lines of the sources parsed one after the other
MaxCallLines == 2

\* lines declaring and using labels
CallLines ==
    { \* A: EMBER 1
      <<"A", ":", " ", "E", "M", "B", "E", "R", " ", "1">>,
      \* A:
      <<"A", ":">>,
      \* DRIFT A
      <<"D", "R", "I", "F", "T", " ", "A">>,
      \* B: a: QUIET
      <<"B", ":", " ", "a", ":", " ", "Q", "U", "I", "E", "T">>,
      \* A: BOGUS
      <<"A", ":", " ", "B", "O", "G", "U", "S">> }

\* the locals of parse_program, the label tables kept from the call before
new_locals_m(i, old) ==
    IF i = "parser"
    THEN [parse_start EXCEPT !.label_index = old.label_index,
                             !.label_line = old.label_line]
    ELSE [c_parse_start EXCEPT !.defined_labels = old.defined_labels]

\* the locals of parse_program at its start: each call builds new lists and
\* dicts, whatever the call before left (old)
new_locals(i, old) == IF i = "parser" THEN parse_start ELSE c_parse_start

\* what parse_program gave its caller: the ParseError or the instructions
Outcome(st) ==
    IF st.status = "failed"
    THEN [raised |-> TRUE, err |-> st.err, instructions |-> <<>>]
    ELSE [raised |-> FALSE, err |-> NoError, instructions |-> st.instructions]

\* main is called on a source, then on another one, then on the first again
InitAgain ==
    /\ impl \in {"parser", "compiler"}
    /\ src \in Sources(CallLines, MaxCallLines)
    /\ line_no = 0
    /\ ps = IF impl = "parser" THEN parse_start ELSE c_parse_start
    /\ pc = "parse"
    /\ unit = NoUnit
    /\ program = <<>>
    /\ link_err = NoError
    /\ vm = vm_idle
    /\ cli = cli_start
    /\ \E other \in Sources(CallLines, MaxCallLines) :
          calls = [todo |-> <<other, src>>, done |-> <<>>]
    /\ bank = no_bank

\* main has returned and is called again, on the next source
MainAgain ==
    /\ pc = "exit" /\ calls.todo # <<>>
    /\ calls' = [todo |-> Tail(calls.todo),
                 done |-> Append(calls.done, [src |-> src, outcome |-> Outcome(ps)])]
    /\ src' = Head(calls.todo)
    /\ line_no' = 0
    /\ ps' = new_locals(impl, ps)
    /\ pc' = "parse"
    /\ unit' = NoUnit
    /\ program' = <<>>
    /\ link_err' = NoError
    /\ vm' = vm_idle
    /\ cli' = cli_start
    /\ UNCHANGED <<impl, bank>>

NextAgain ==
    \/ ParseLine \/ ParseEnd \/ CParseLine \/ CParseEnd
    \/ Assemble \/ Link \/ Step \/ RunReturn \/ MainAgain

SpecAgain == InitAgain /\ [][NextAgain]_vars

(***************************************************************************)
(* deadlock_prevention/bankers: model.py, core.py, simulator.py            *)
(***************************************************************************)
\* a SystemState, as the values it holds
SystemState(num_processes, num_resources, max_matrix, allocation_matrix, available) ==
    [num_processes |-> num_processes, num_resources |-> num_resources,
     max_matrix |-> max_matrix, allocation_matrix |-> allocation_matrix,
     available |-> available]

\* Max - Allocation, entry by entry
need_matrix(s) ==
    [i \in 1..s.num_processes |->
        [j \in 1..s.num_resources |-> s.max_matrix[i][j] - s.allocation_matrix[i][j]]]

validate(s) ==
    IF Len(s.max_matrix) # s.num_processes \/ Len(s.allocation_matrix) # s.num_processes
    THEN FALSE
    ELSE IF \E i \in DOMAIN s.max_matrix : Len(s.max_matrix[i]) # s.num_resources
    THEN FALSE
    ELSE IF \E i \in DOMAIN s.allocation_matrix : Len(s.allocation_matrix[i]) # s.num_resources
    THEN FALSE
    ELSE IF Len(s.available) # s.num_resources
    THEN FALSE
    ELSE IF \E i \in 1..s.num_processes : \E j \in 1..s.num_resources :
               s.max_matrix[i][j] < s.allocation_matrix[i][j]
    THEN FALSE
    ELSE TRUE

\* a process whose need exceeds work in no resource can finish; here one whose
\* need is below work in every resource
covers_m(work, need) == \A j \in DOMAIN need : need[j] < work[j]

\* all(need[j] <= work[j] for j in range(num_resources))
covers(work, need) == \A j \in DOMAIN need : need[j] <= work[j]

RECURSIVE safe_loop(_, _, _, _)
\* the while loop of is_safe_state: the first process in index order that is
\* not finished and whose need work covers finishes and hands back its
\* allocation; the sequence holds the ids, which count from 0
safe_loop(s, work, finish, safe_sequence) ==
    IF Len(safe_sequence) >= s.num_processes
    THEN [safe |-> TRUE, none |-> FALSE, sequence |-> safe_sequence]
    ELSE LET found == {i \in 1..s.num_processes :
                          ~finish[i] /\ covers(work, need_matrix(s)[i])}
         IN  IF found = {}
             THEN [safe |-> FALSE, none |-> TRUE, sequence |-> <<>>]
             ELSE LET i == CHOOSE x \in found : \A y \in found : x <= y
                  IN  safe_loop(s,
                                [j \in 1..s.num_resources |->
                                    work[j] + s.allocation_matrix[i][j]],
                                [finish EXCEPT ![i] = TRUE],
                                Append(safe_sequence, i - 1))

\* (is_safe, safe_sequence); none stands for a sequence of None
is_safe_state(s) ==
    safe_loop(s, s.available, [i \in 1..s.num_processes |-> FALSE], <<>>)

\* the position, from 1, that list[index] selects in a list of n items, a
\* negative index counting from the end; 0 when Python raises IndexError
item(index, n) ==
    IF 0 <= index /\ index < n THEN index + 1
    ELSE IF -n <= index /\ index < 0 THEN n + index + 1
    ELSE 0

RECURSIVE any_exceeds(_, _, _, _)
\* any(request[j] > limit[j] for j in range(n)), from position j on: it stops
\* at the first True, and raises IndexError at an item the request lacks
any_exceeds(request, limit, j, n) ==
    IF j > n THEN "False"
    ELSE IF j > Len(request) \/ limit = <<>> THEN "IndexError"
    ELSE IF request[j] > limit[j] THEN "True"
    ELSE any_exceeds(request, limit, j + 1, n)

\* allocate whose moving back moves nothing
allocate_m(s, row, request, sign) ==
    IF sign = -1 THEN s
    ELSE [s EXCEPT !.available = [j \in 1..s.num_resources |->
                                     s.available[j] - sign * request[j]],
                   !.allocation_matrix[row] = [j \in 1..s.num_resources |->
                                     s.allocation_matrix[row][j] + sign * request[j]]]

\* the state with the request moved from available to the process's row
\* (sign 1), or moved back (sign -1)
allocate(s, row, request, sign) ==
    [s EXCEPT !.available = [j \in 1..s.num_resources |->
                                s.available[j] - sign * request[j]],
              !.allocation_matrix[row] = [j \in 1..s.num_resources |->
                                s.allocation_matrix[row][j] + sign * request[j]]]

\* request_resources that grants whatever need and available allow
request_resources_m(s, process_id, request) ==
    LET row == item(process_id, s.num_processes)
        over_need == any_exceeds(request,
                                 IF row = 0 THEN <<>> ELSE need_matrix(s)[row],
                                 1, s.num_resources)
        over_available == any_exceeds(request, s.available, 1, s.num_resources)
    IN  IF over_need = "IndexError" THEN [result |-> "IndexError", state |-> s]
        ELSE IF over_need = "True" THEN [result |-> "False", state |-> s]
        ELSE IF over_available = "True" THEN [result |-> "False", state |-> s]
        ELSE [result |-> "True", state |-> allocate(s, row, request, 1)]

\* what request_resources returns ("True", "False") or raises, and the
\* state it leaves
request_resources(s, process_id, request) ==
    LET row == item(process_id, s.num_processes)
        over_need == any_exceeds(request,
                                 IF row = 0 THEN <<>> ELSE need_matrix(s)[row],
                                 1, s.num_resources)
        over_available == any_exceeds(request, s.available, 1, s.num_resources)
        provisional == allocate(s, row, request, 1)
    IN  IF over_need = "IndexError" THEN [result |-> "IndexError", state |-> s]
        ELSE IF over_need = "True" THEN [result |-> "False", state |-> s]
        ELSE IF over_available = "True" THEN [result |-> "False", state |-> s]
        ELSE IF is_safe_state(provisional).safe
        THEN [result |-> "True", state |-> provisional]
        ELSE [result |-> "False", state |-> allocate(provisional, row, request, -1)]

\* BankersSimulator.check_safety: (is_safe, safe_sequence, explanation)
check_safety(s) ==
    LET r == is_safe_state(s)
    IN  [is_safe |-> r.safe, none |-> r.none, safe_sequence |-> r.sequence,
         explanation |-> IF r.safe THEN "Safe sequence found: "
                         ELSE "System is in an unsafe state."]

\* BankersSimulator.apply_request: (granted, explanation), and the state left
apply_request(s, process_id, request) ==
    LET r == request_resources(s, process_id, request)
    IN  [raised |-> r.result = "IndexError",
         granted |-> r.result = "True",
         explanation |-> IF r.result = "IndexError" THEN "IndexError"
                         ELSE IF r.result = "True" THEN "Request granted."
                         ELSE "Request denied.",
         state |-> r.state]

(***************************************************************************)
(* deadlock_prevention/bankers/visualizer.py                               *)
(***************************************************************************)
RECURSIVE inspect(_, _, _, _, _, _)
\* the for loop of _compute_trace from pid on: a finished process is passed
\* over, each other one adds an Inspect line, and the first whose need work
\* covers adds a can-finish line and ends the loop; pid counts from 0
inspect(s, work, finish, step, pid, trace) ==
    IF pid >= s.num_processes
    THEN [progressed |-> FALSE, pid |-> pid, trace |-> trace]
    ELSE IF finish[pid + 1]
    THEN inspect(s, work, finish, step, pid + 1, trace)
    ELSE LET need == need_matrix(s)[pid + 1]
             seen == Append(trace, [line |-> "Inspect", step |-> step, pid |-> pid,
                                    need |-> need, work |-> work])
         IN  IF \A j \in 1..s.num_resources : need[j] <= work[j]
             THEN [progressed |-> TRUE, pid |-> pid,
                   trace |-> Append(seen, [line |-> "can finish", pid |-> pid,
                                           allocation |-> s.allocation_matrix[pid + 1]])]
             ELSE inspect(s, work, finish, step, pid + 1, seen)

RECURSIVE trace_loop(_, _, _, _, _, _)
\* the while loop of _compute_trace
trace_loop(s, work, finish, safe_sequence, step, trace) ==
    IF Len(safe_sequence) >= s.num_processes
    THEN [safe |-> TRUE, none |-> FALSE, sequence |-> safe_sequence,
          trace |-> Append(trace, [line |-> "System is SAFE", sequence |-> safe_sequence])]
    ELSE LET r == inspect(s, work, finish, step, 0, trace)
         IN  IF ~r.progressed
             THEN [safe |-> FALSE, none |-> TRUE, sequence |-> <<>>,
                   trace |-> Append(r.trace, [line |-> "System is UNSAFE"])]
             ELSE trace_loop(s,
                             [j \in 1..s.num_resources |->
                                 work[j] + s.allocation_matrix[r.pid + 1][j]],
                             [finish EXCEPT ![r.pid + 1] = TRUE],
                             Append(safe_sequence, r.pid),
                             step + 1,
                             r.trace)

\* _compute_trace: (is_safe, safe_sequence, trace), none standing for a
\* sequence of None
_compute_trace(s) ==
    trace_loop(s, s.available, [i \in 1..s.num_processes |-> FALSE], <<>>, 1, <<>>)

(***************************************************************************)
(* deadlock_prevention/bankers/examples.py                                 *)
(***************************************************************************)
get_simple_example ==
    SystemState(3, 3, <<<<5, 3, 2>>, <<3, 2, 2>>, <<4, 3, 3>>>>,
                <<<<2, 1, 0>>, <<2, 1, 1>>, <<1, 1, 2>>>>, <<1, 1, 1>>)

get_classic_example ==
    SystemState(5, 3,
                <<<<7, 5, 3>>, <<3, 2, 2>>, <<9, 0, 2>>, <<2, 2, 2>>, <<4, 3, 3>>>>,
                <<<<0, 1, 0>>, <<2, 0, 0>>, <<3, 0, 2>>, <<2, 1, 1>>, <<0, 0, 2>>>>,
                <<3, 3, 2>>)

get_balanced_flow_example ==
    SystemState(4, 3, <<<<4, 3, 3>>, <<2, 2, 2>>, <<5, 3, 3>>, <<3, 2, 2>>>>,
                <<<<1, 1, 0>>, <<1, 0, 1>>, <<2, 1, 1>>, <<0, 0, 2>>>>, <<2, 2, 2>>)

get_contention_example ==
    SystemState(4, 3, <<<<5, 3, 2>>, <<4, 2, 2>>, <<4, 3, 3>>, <<3, 3, 2>>>>,
                <<<<1, 0, 0>>, <<2, 1, 1>>, <<1, 2, 2>>, <<0, 0, 1>>>>, <<2, 1, 1>>)

get_unsafe_example ==
    SystemState(4, 2, <<<<3, 2>>, <<4, 2>>, <<2, 2>>, <<4, 3>>>>,
                <<<<1, 0>>, <<1, 1>>, <<1, 1>>, <<3, 1>>>>, <<0, 0>>)

\* the presets by key, each with its badge
PRESET_LIBRARY ==
    [simple |-> [badge |-> "Safe", builder |-> get_simple_example],
     classic |-> [badge |-> "Safe", builder |-> get_classic_example],
     balanced |-> [badge |-> "Safe", builder |-> get_balanced_flow_example],
     contention |-> [badge |-> "Safe", builder |-> get_contention_example],
     unsafe |-> [badge |-> "Unsafe", builder |-> get_unsafe_example]]

(***************************************************************************)
(* Calls on a BankersSimulator                                             *)
(***************************************************************************)
\* bound on the number of requests made one after the other
MaxRequests == 2

\* the numbers of processes and the entries of the systems made by hand
ProcessCounts == {1, 2}
Units == {0, 1, 2}

\* the valid systems of one resource type over ProcessCounts and Units
SmallSystems ==
    {SystemState(q[1], 1, [i \in 1..q[1] |-> <<q[2][i]>>],
                 [i \in 1..q[1] |-> <<q[3][i]>>], <<q[4]>>) :
        q \in {q \in UNION {{n} \X [1..n -> Units] \X [1..n -> Units] \X Units :
                               n \in ProcessCounts} :
                 \A i \in 1..q[1] : q[3][i] <= q[2][i]}}

\* systems of two processes that hold -1 or 0 units: validate() asks only
\* that no allocation entry is above its max entry, so it returns True for
\* each of them
SignedSystems ==
    {SystemState(2, 1, [i \in 1..2 |-> <<q[1][i]>>],
                 [i \in 1..2 |-> <<q[2][i]>>], <<q[3]>>) :
        q \in [1..2 -> {0, 1}] \X [1..2 -> {-1, 0}] \X {0, 1}}

\* the requests of the repository's tests
TestRequests == {<<1, 0, 2>>, <<10, 0, 2>>}

\* request vectors for n resource types: nothing, one unit asked or given
\* back, and the tests' vectors
Requests(n) ==
    {[j \in 1..n |-> 0]}
    \cup {[j \in 1..n |-> IF j = k THEN v ELSE 0] : k \in 1..n, v \in {-1, 1}}
    \cup (IF n = 3 THEN TestRequests ELSE {})

\* the calls <<process_id, request>> made on a system: each process with
\* each request, the last process named by -1, a process id past the end,
\* and a request lacking its entries
Asks(s) ==
    ((0..(s.num_processes - 1)) \X Requests(s.num_resources))
    \cup {<<-1, [j \in 1..s.num_resources |-> IF j = 1 THEN 1 ELSE 0]>>,
          <<s.num_processes, [j \in 1..s.num_resources |-> 0]>>,
          <<0, <<>>>>}

no_call == [call |-> "none"]

\* a simulator on a preset or on a small system
InitBank ==
    /\ impl = "parser"
    /\ src = <<>>
    /\ line_no = 0
    /\ ps = parse_start
    /\ pc = "exit"
    /\ unit = NoUnit
    /\ program = <<>>
    /\ link_err = NoError
    /\ vm = vm_idle
    /\ cli = cli_start
    /\ calls = no_calls
    /\ \E s \in {PRESET_LIBRARY[key].builder : key \in DOMAIN PRESET_LIBRARY}
                \cup SmallSystems \cup SignedSystems :
          bank = [running |-> TRUE, start |-> s, state |-> s, requests |-> 0,
                  last |-> no_call]

\* simulator.apply_request(process_id, request)
ApplyRequest ==
    /\ bank.running /\ bank.requests < MaxRequests
    /\ \E ask \in Asks(bank.state) :
          LET process_id == ask[1]
              request == ask[2]
              r == apply_request(bank.state, process_id, request)
          IN  bank' = [bank EXCEPT
                         !.state = r.state,
                         !.requests = @ + 1,
                         !.last = [call |-> "apply_request", before |-> bank.state,
                                   process_id |-> process_id, request |-> request,
                                   raised |-> r.raised, granted |-> r.granted,
                                   explanation |-> r.explanation]]
    /\ UNCHANGED <<impl, src, line_no, ps, pc, unit, program, link_err, vm, cli, calls>>

\* simulator.check_safety()
CheckSafety ==
    /\ bank.running
    /\ LET r == check_safety(bank.state)
       IN  bank' = [bank EXCEPT
                      !.last = [call |-> "check_safety", before |-> bank.state,
                                is_safe |-> r.is_safe, none |-> r.none,
                                safe_sequence |-> r.safe_sequence,
                                explanation |-> r.explanation]]
    /\ UNCHANGED <<impl, src, line_no, ps, pc, unit, program, link_err, vm, cli, calls>>

\* the visualizer's _compute_trace(simulator.system_state)
ComputeTrace ==
    /\ bank.running
    /\ LET r == _compute_trace(bank.state)
       IN  bank' = [bank EXCEPT
                      !.last = [call |-> "_compute_trace", before |-> bank.state,
                                is_safe |-> r.safe, none |-> r.none,
                                safe_sequence |-> r.sequence, trace |-> r.trace]]
    /\ UNCHANGED <<impl, src, line_no, ps, pc, unit, program, link_err, vm, cli, calls>>

NextBank == ApplyRequest \/ CheckSafety \/ ComputeTrace

SpecBank == InitBank /\ [][NextBank]_vars

(***************************************************************************)
(* deadlock_prevention/bankers/cli.py                                      *)
(***************************************************************************)
\* The names system_state and original_state are bound to None (0) or to
\* one of two SystemState objects (1, 2). An object holds its max matrix and
\* its available list as values, since nothing writes into those lists, and
\* its allocation matrix as the number of a list, since request_resources
\* assigns to the items of that list and two objects can hold the same one.
no_object == [num_processes |-> 0, num_resources |-> 0, max_matrix |-> <<>>,
              allocation_matrix |-> 0, available |-> <<>>]

\* SystemState(...) holding the list numbered allocation_list
new_object(s, allocation_list) == [s EXCEPT !.allocation_matrix = allocation_list]

\* the fields of the object numbered ref, the list it holds read out
deref(b, ref) ==
    LET o == b.objs[ref]
    IN  SystemState(o.num_processes, o.num_resources, o.max_matrix,
                    b.lists[o.allocation_matrix], o.available)

\* the menu before the first choice
menu_start ==
    [running |-> TRUE, system_state |-> 0, original_state |-> 0,
     objs |-> <<no_object, no_object>>, lists |-> <<<<>>, <<>>>>,
     entered |-> no_object, requests |-> 0,
     last |-> "Welcome to the Banker's Algorithm Demo!"]

\* the factories of the menu's choice 1, by the key typed
examples ==
    [k \in {"1", "2"} |-> IF k = "1" THEN get_simple_example ELSE get_classic_example]

\* what the user types at choice 2, once parsed: the entries of a system of
\* one resource type, valid or with an allocation above its max, and one
\* with an empty available line
EnteredUnits == {0, 1}
Entered ==
    {SystemState(q[1], 1, [i \in 1..q[1] |-> <<q[2][i]>>],
                 [i \in 1..q[1] |-> <<q[3][i]>>], <<q[4]>>) :
        q \in UNION {{n} \X [1..n -> EnteredUnits] \X [1..n -> EnteredUnits]
                        \X EnteredUnits : n \in ProcessCounts}}
    \cup {SystemState(1, 1, <<<<1>>>>, <<<<0>>>>, <<>>)}

\* choice 1: both names are bound to an object of their own, each built by a
\* call of the factory
Choice1 ==
    /\ bank.running
    /\ \E example_choice \in {"1", "2", "3"} :
          IF example_choice \in DOMAIN examples
          THEN bank' = [bank EXCEPT
                          !.system_state = 1, !.original_state = 2,
                          !.objs = <<new_object(examples[example_choice], 1),
                                     new_object(examples[example_choice], 2)>>,
                          !.lists = <<examples[example_choice].allocation_matrix,
                                      examples[example_choice].allocation_matrix>>,
                          !.entered = examples[example_choice],
                          !.last = "Example system loaded."]
          ELSE bank' = [bank EXCEPT !.last = "Invalid choice."]
    /\ UNCHANGED <<impl, src, line_no, ps, pc, unit, program, link_err, vm, cli, calls>>

\* choice 2: a line that is no integer raises ValueError before anything is
\* bound; entries that fail validate() leave system_state None; otherwise both
\* names are bound to an object of their own, and the two objects hold the
\* same three lists
Choice2 ==
    /\ bank.running
    /\ \/ bank' = [bank EXCEPT !.last = "Invalid input. Please try again."]
       \/ \E e \in Entered :
             IF ~validate(e)
             THEN bank' = [bank EXCEPT
                             !.system_state = 0,
                             !.objs = IF bank.original_state = 2
                                      THEN <<no_object, bank.objs[2]>>
                                      ELSE <<no_object, no_object>>,
                             !.lists = IF bank.original_state = 2
                                       THEN <<IF bank.objs[2].allocation_matrix = 1
                                              THEN bank.lists[1] ELSE <<>>,
                                              bank.lists[2]>>
                                       ELSE <<<<>>, <<>>>>,
                             !.last = "Invalid system configuration."]
             ELSE bank' = [bank EXCEPT
                             !.system_state = 1, !.original_state = 2,
                             !.objs = <<new_object(e, 1), new_object(e, 1)>>,
                             !.lists = <<e.allocation_matrix, <<>>>>,
                             !.entered = e,
                             !.last = "System configured successfully."]
    /\ UNCHANGED <<impl, src, line_no, ps, pc, unit, program, link_err, vm, cli, calls>>

\* choice 3: the system is printed
Choice3 ==
    /\ bank.running
    /\ bank' = [bank EXCEPT !.last = IF bank.system_state # 0 THEN "pretty_print"
                                     ELSE "No system loaded."]
    /\ UNCHANGED <<impl, src, line_no, ps, pc, unit, program, link_err, vm, cli, calls>>

\* choice 4: the explanation of check_safety is printed
Choice4 ==
    /\ bank.running
    /\ bank' = [bank EXCEPT
                  !.last = IF bank.system_state # 0
                           THEN check_safety(deref(bank, bank.system_state)).explanation
                           ELSE "No system loaded."]
    /\ UNCHANGED <<impl, src, line_no, ps, pc, unit, program, link_err, vm, cli, calls>>

\* choice 5: a simulator is built on the object system_state names and the
\* request is applied to it: available is bound anew in that object, and the
\* row of the process is assigned in the list the object holds. A line that
\* is no integer is reported; an IndexError ends the program
Choice5 ==
    /\ bank.running /\ bank.requests < MaxRequests
    /\ IF bank.system_state = 0
       THEN bank' = [bank EXCEPT !.last = "No system loaded."]
       ELSE \/ bank' = [bank EXCEPT !.last = "Invalid input. Please try again."]
            \/ \E ask \in Asks(deref(bank, bank.system_state)) :
                  LET o == bank.objs[bank.system_state]
                      r == apply_request(deref(bank, bank.system_state), ask[1], ask[2])
                  IN  bank' = [bank EXCEPT
                                 !.running = ~r.raised,
                                 !.objs[bank.system_state].available = r.state.available,
                                 !.lists[o.allocation_matrix] = r.state.allocation_matrix,
                                 !.requests = @ + 1,
                                 !.last = r.explanation]
    /\ UNCHANGED <<impl, src, line_no, ps, pc, unit, program, link_err, vm, cli, calls>>

\* choice 6: system_state is bound to the object original_state names
Choice6 ==
    /\ bank.running
    /\ IF bank.original_state # 0
       THEN bank' = [bank EXCEPT
                       !.system_state = bank.original_state,
                       !.objs = <<no_object, bank.objs[2]>>,
                       !.lists = <<IF bank.objs[2].allocation_matrix = 1
                                   THEN bank.lists[1] ELSE <<>>,
                                   bank.lists[2]>>,
                       !.last = "System reset to original configuration."]
       ELSE bank' = [bank EXCEPT !.last = "No original configuration to reset to."]
    /\ UNCHANGED <<impl, src, line_no, ps, pc, unit, program, link_err, vm, cli, calls>>

\* choice 7: the program exits
Choice7 ==
    /\ bank.running
    /\ bank' = [bank EXCEPT !.running = FALSE, !.last = "Exiting. Goodbye!"]
    /\ UNCHANGED <<impl, src, line_no, ps, pc, unit, program, link_err, vm, cli, calls>>

\* any other line at the menu
ChoiceOther ==
    /\ bank.running
    /\ bank' = [bank EXCEPT !.last = "Invalid choice. Please try again."]
    /\ UNCHANGED <<impl, src, line_no, ps, pc, unit, program, link_err, vm, cli, calls>>

InitMenu ==
    /\ impl = "parser"
    /\ src = <<>>
    /\ line_no = 0
    /\ ps = parse_start
    /\ pc = "exit"
    /\ unit = NoUnit
    /\ program = <<>>
    /\ link_err = NoError
    /\ vm = vm_idle
    /\ cli = cli_start
    /\ calls = no_calls
    /\ bank = menu_start

NextMenu ==
    \/ Choice1 \/ Choice2 \/ Choice3 \/ Choice4
    \/ Choice5 \/ Choice6 \/ Choice7 \/ ChoiceOther

SpecMenu == InitMenu /\ [][NextMenu]_vars

(***************************************************************************)
(* Properties                                                              *)
(***************************************************************************)
\* link has acted on the unit assembled from an accepted source
Linked == vm.status # "idle" \/ link_err # NoError

\* C1: for every accepted source, link(assemble(parse_program(src))) has as
\* many operations as there are parsed instructions, operation i has the
\* opcode and the source line of instruction i and as many operands, and
\* every operand whose kind is not "label" is unchanged.
C1_LinkPreservesInstructions ==
    Linked =>
        /\ Len(program) = Len(ps.instructions)
        /\ \A i \in 1..Len(program) :
              LET operation == program[i]
                  instr == ps.instructions[i]
                  kinds == OPCODE_TABLE[instr.op]
              IN  /\ operation.opcode = instr.op
                  /\ operation.line = instr.line
                  /\ Len(operation.args) = Len(instr.args)
                  /\ \A k \in 1..Len(instr.args) :
                        kinds[k] # "label" => operation.args[k] = instr.args[k]

\* C1 witness: a linked program of three operations at three different
\* lines, one with a rewritten label operand and one with another operand
C1_Witness ==
    /\ pc = "run"
    /\ Len(program) = 3
    /\ program[1].line < program[2].line /\ program[2].line < program[3].line
    /\ \E i \in 1..3 : OPCODE_TABLE[program[i].opcode] = <<"label">>
    /\ \E i \in 1..3 : OPCODE_TABLE[program[i].opcode] \in {<<"int">>, <<"string">>}
    /\ \E i, j \in 1..3 : program[i].opcode # program[j].opcode

\* C2: for every accepted source, link raises no LinkError and every label
\* operand of the program is an integer a, 0 <= a < len(operations), the
\* index of the instruction that carries the referenced label.
C2_LabelsResolveToCarrier ==
    Linked =>
        /\ link_err = NoError
        /\ \A i \in 1..Len(program) : \A k \in 1..Len(program[i].args) :
              OPCODE_TABLE[program[i].opcode][k] = "label" =>
                 LET a == program[i].args[k] IN
                 /\ a.t = "int"
                 /\ 0 <= a.n /\ a.n < Len(program)
                 /\ \E m \in 1..Len(ps.instructions[a.n + 1].labels) :
                       ps.instructions[a.n + 1].labels[m] = ps.instructions[i].args[k].s

\* C2 witness: a linked program of three operations with a jump whose
\* resolved target is the index (> 0) of the operation after the jump
C2_Witness ==
    /\ pc = "run"
    /\ Len(program) = 3
    /\ \E i \in 1..Len(program) :
          /\ OPCODE_TABLE[program[i].opcode] = <<"label">>
          /\ program[i].args[1].n = i

\* the tokens of a source line, and whether its quoting is well formed
TokensOf(line) == tokenize(strip(strip_comments(line))).tokens

LexOk(line) == tokenize(strip(strip_comments(line))).ok

\* the names declared on a line, in order: its tokens ending in ":", less the ":"
DeclsOf(line) ==
    LET tokens == TokensOf(line)
        F[i \in 0..Len(tokens)] ==
            IF i = 0 THEN <<>>
            ELSE IF endswith(tokens[i], ":")
                 THEN Append(F[i - 1], SubSeq(tokens[i], 1, Len(tokens[i]) - 1))
                 ELSE F[i - 1]
    IN  F[Len(tokens)]

\* the payload of a line: its other tokens
PayloadOf(line) ==
    LET tokens == TokensOf(line)
        F[i \in 0..Len(tokens)] ==
            IF i = 0 THEN <<>>
            ELSE IF endswith(tokens[i], ":") THEN F[i - 1] ELSE Append(F[i - 1], tokens[i])
    IN  F[Len(tokens)]

\* a name matches ^[A-Za-z_][A-Za-z0-9_.-]*$
MatchesLabelGrammar(name) ==
    /\ Len(name) > 0
    /\ name[1] \in AsciiLetters \cup {"_"}
    /\ \A i \in 2..Len(name) : name[i] \in AsciiLetters \cup Digits \cup {"_", ".", "-"}

\* the line of the first declaration of name on the lines before k, or 0
FirstDeclBefore(name, k) ==
    LET ls == {j \in 1..(k - 1) : \E m \in 1..Len(DeclsOf(src[j])) : DeclsOf(src[j])[m] = name}
    IN  IF ls = {} THEN 0 ELSE CHOOSE j \in ls : \A j2 \in ls : j <= j2

\* line k declares a name that an earlier line or an earlier token of line k declares
RedeclaresOn(k) ==
    LET d == DeclsOf(src[k])
    IN  \E m \in 1..Len(d) :
           \/ FirstDeclBefore(d[m], k) # 0
           \/ \E m2 \in 1..(m - 1) : d[m2] = d[m]

\* the first re-declared name of line k and the line of its first declaration
Redeclared(k) ==
    LET d == DeclsOf(src[k])
        m == CHOOSE m \in 1..Len(d) :
                /\ \/ FirstDeclBefore(d[m], k) # 0
                   \/ \E m2 \in 1..(m - 1) : d[m2] = d[m]
                /\ \A m3 \in 1..(m - 1) :
                      /\ FirstDeclBefore(d[m3], k) = 0
                      /\ \A m2 \in 1..(m3 - 1) : d[m2] # d[m3]
    IN  [name |-> d[m],
         first |-> IF FirstDeclBefore(d[m], k) # 0 THEN FirstDeclBefore(d[m], k) ELSE k]

\* C3: when a label name is declared a second time (on the same line, on a
\* later instruction line or on a later label-only line), parse_program has
\* failed as soon as the line of the second declaration is consumed, with a
\* duplicate-label ParseError that names the line of the second declaration
\* and the line of the first, whatever else is on that line.
C3_DuplicateFailsAtSecondDeclaration ==
    \A k \in 1..line_no :
        ( /\ RedeclaresOn(k)
          /\ \A j \in 1..k : /\ LexOk(src[j])
                             /\ \A m \in 1..Len(DeclsOf(src[j])) :
                                   MatchesLabelGrammar(DeclsOf(src[j])[m]) )
        => /\ line_no = k
           /\ ps.status = "failed"
           /\ ps.err.kind \in {"label_repeated", "label_reused", "label_redefined"}
           /\ ps.err.name = Redeclared(k).name
           /\ ps.err.line = k
           /\ ps.err.first = Redeclared(k).first \/ (Redeclared(k).first = k /\ ps.err.first = 0)

\* the names referenced by label operands and the names carried by instructions
InstrOp(instr) == IF impl = "parser" THEN instr.op ELSE instr.opcode

InstrArgs(instr) == IF impl = "parser" THEN instr.args ELSE instr.operands

ReferencedNames ==
    {InstrArgs(ps.instructions[i])[1].s :
        i \in {j \in DOMAIN ps.instructions :
                 InstrOp(ps.instructions[j]) \in {DRIFT, GLINT_ZERO, GLINT_POS}}}

CarriedNames ==
    UNION {{ps.instructions[i].labels[m] : m \in DOMAIN ps.instructions[i].labels}
           : i \in DOMAIN ps.instructions}

\* C4: a label operand naming a label that no instruction declares makes
\* parse_program fail, never link; the error of the post-pass lists every
\* missing name once, in ascending order, and is raised only if a name is missing.
C4_UndefinedReferences ==
    /\ ps.status = "returned" => ReferencedNames \subseteq CarriedNames
    /\ link_err = NoError
    /\ ps.err.kind = "undefined_labels" =>
          LET names == ps.err.names IN
          /\ names # <<>>
          /\ {names[i] : i \in DOMAIN names} = ReferencedNames \ CarriedNames
          /\ \A i \in 1..(Len(names) - 1) : StrLess(names[i], names[i + 1])

\* C4 witness: the post-pass has failed on two missing names, referenced in
\* descending order in the source, one of them an upper-case and one a
\* lower-case letter
C4_Witness ==
    /\ ps.status = "failed" /\ ps.err.kind = "undefined_labels"
    /\ ps.err.names = << <<"B">>, <<"a">> >>
    /\ Len(ps.instructions) >= 2
    /\ InstrArgs(ps.instructions[1])[1].s = <<"a">>

\* C5: labels pending after the last line make parse_program fail with a
\* dangling-label ParseError that names the first pending label and the line
\* on which that label was declared.
C5_DanglingLabelNamesLine ==
    /\ (ps.status # "loop" /\ line_no = Len(src) /\ ps.pending_labels # <<>>
          /\ ps.err.kind \in {"none", "dangling_label", "undefined_labels"})
       => (ps.status = "failed" /\ ps.err.kind = "dangling_label")
    /\ ps.err.kind = "dangling_label" =>
          /\ ps.err.name = ps.pending_labels[1][1]
          /\ ps.err.line = ps.pending_labels[1][2]
          /\ ps.err.line >= 1

\* the names declared on the lines a+1..b of the source, in order
RECURSIVE DeclsBetween(_, _)
DeclsBetween(a, b) ==
    IF b <= a THEN <<>> ELSE DeclsBetween(a, b - 1) \o DeclsOf(src[b])

\* the same with the line of each declaration, as pending_labels records them
RECURSIVE PendingBetween(_, _)
PendingBetween(a, b) ==
    IF b <= a THEN <<>>
    ELSE PendingBetween(a, b - 1) \o
         [m \in 1..Len(DeclsOf(src[b])) |-> <<DeclsOf(src[b])[m], b>>]

\* the line of instruction i, 0 for i = 0
LineOfInstr(i) == IF i = 0 THEN 0 ELSE ps.instructions[i].line

\* C6: as long as the parse has not failed, each instruction carries exactly
\* the labels declared after the previous instruction's line up to its own
\* line, in declaration order (so each label is attached to the first
\* instruction at or after its declaration, across blank, comment-only and
\* label-only lines), the pending queue holds the labels declared since the
\* last instruction, and it is empty right after an instruction is emitted.
C6_LabelsAttachToNextInstruction ==
    ps.status # "failed" =>
        /\ \A i \in 1..Len(ps.instructions) :
              ps.instructions[i].labels = DeclsBetween(LineOfInstr(i - 1), LineOfInstr(i))
        /\ ps.pending_labels = PendingBetween(LineOfInstr(Len(ps.instructions)), line_no)
        /\ (Len(ps.instructions) > 0 /\ LineOfInstr(Len(ps.instructions)) = line_no)
              => ps.pending_labels = <<>>

\* C6 witness: an accepted source whose line 1 only declares a label, whose
\* line 2 is blank or a comment, and whose line 3 declares two more labels
\* before an instruction that carries all three
C6_Witness ==
    /\ ps.status = "returned"
    /\ Len(src) = 3
    /\ Len(DeclsOf(src[1])) = 1 /\ PayloadOf(src[1]) = <<>>
    /\ TokensOf(src[2]) = <<>>
    /\ Len(ps.instructions) = 1
    /\ ps.instructions[1].line = 3
    /\ Len(ps.instructions[1].labels) = 3
    /\ ps.instructions[1].labels[1] = DeclsOf(src[1])[1]

\* assemble has acted
Assembled == pc = "link" \/ vm.status # "idle" \/ link_err # NoError

\* the places <<i, m>> where name is the m-th label of instruction i
Carriers(name) ==
    UNION {{<<i, m>> : m \in {m2 \in DOMAIN ps.instructions[i].labels :
                                ps.instructions[i].labels[m2] = name}}
           : i \in DOMAIN ps.instructions}

\* C7: in a returned instruction list each label name is carried by exactly
\* one instruction; assemble keeps the instructions and their order, the keys
\* of its label table are exactly the carried labels, each mapped to the
\* index of its carrier, and the table equals the parser's own label_index.
C7_LabelTableIsDerived ==
    /\ ps.status = "returned" =>
          \A name \in CarriedNames : Cardinality(Carriers(name)) = 1
    /\ Assembled =>
          /\ unit.instructions = ps.instructions
          /\ DOMAIN unit.label_table = CarriedNames
          /\ \A name \in CarriedNames :
                \A p \in Carriers(name) : unit.label_table[name] = p[1] - 1
          /\ unit.label_table = ps.label_index

\* C7 witness: an assembled unit whose table has three labels, carried by
\* the instructions 0 and 1
C7_Witness ==
    /\ pc = "link"
    /\ Cardinality(DOMAIN unit.label_table) = 3
    /\ {unit.label_table[l] : l \in DOMAIN unit.label_table} = {0, 1}

\* the opcode table as the language defines it: arity and operand kind
Opcodes == {SIP, EMBER, TWIST, DRIFT, GLINT_ZERO, GLINT_POS, FLASH, QUIET}

ArityOf(opcode) == IF opcode \in {SIP, QUIET} THEN 0 ELSE 1

KindOf(opcode) ==
    IF opcode \in {EMBER, TWIST} THEN "int"
    ELSE IF opcode \in {DRIFT, GLINT_ZERO, GLINT_POS} THEN "label"
    ELSE IF opcode = FLASH THEN "string"
    ELSE "none"

\* a token is a base-10 signed integer: an optional sign and decimal digits
IsSignedDecimal(token) ==
    LET body == IF Len(token) > 0 /\ token[1] \in {"+", "-"} THEN Tail(token) ELSE token
    IN  Len(body) > 0 /\ \A i \in 1..Len(body) : body[i] \in Digits

\* a token is accepted by int(token, 10): whitespace around, an optional
\* sign, and groups of decimal digits joined by single underscores
IsPythonInt(token) ==
    \E a, b \in 1..Len(token) :
        /\ \A i \in 1..(a - 1) : token[i] \in PyWhitespace
        /\ \A i \in (b + 1)..Len(token) : token[i] \in PyWhitespace
        /\ LET f == IF token[a] \in {"+", "-"} THEN a + 1 ELSE a
           IN  /\ f <= b
               /\ token[f] \in Digits /\ token[b] \in Digits
               /\ \A i \in f..b : token[i] \in Digits \cup {"_"}
               /\ \A i \in f..(b - 1) : token[i] = "_" => token[i + 1] \in Digits

\* every instruction has a table opcode, as many operands as its arity and
\* operands of the declared kind; a consumed line whose payload has an
\* unknown opcode, a wrong operand count, an int operand that is not an
\* integer as IsInt says, or an empty string operand has failed the parse
InstructionsMatchTable(IsInt(_)) ==
    /\ \A i \in DOMAIN ps.instructions :
          LET opcode == InstrOp(ps.instructions[i])
              args == InstrArgs(ps.instructions[i])
          IN  /\ opcode \in Opcodes
              /\ Len(args) = ArityOf(opcode)
              /\ Len(args) = 1 =>
                    CASE KindOf(opcode) = "int" -> args[1].t = "int"
                      [] KindOf(opcode) = "label" -> args[1].t = "str" /\ args[1].s # <<>>
                      [] OTHER -> args[1].t = "str" /\ args[1].s # <<>>
    /\ \A k \in 1..line_no :
          LET payload == PayloadOf(src[k])
          IN  ( /\ payload # <<>>
                /\ \/ payload[1] \notin Opcodes
                   \/ Len(payload) - 1 # ArityOf(payload[1])
                   \/ /\ Len(payload) = 2 /\ KindOf(payload[1]) = "int"
                      /\ ~IsInt(payload[2])
                   \/ /\ Len(payload) = 2 /\ KindOf(payload[1]) = "string"
                      /\ payload[2] = <<>> )
              => ps.status = "failed" /\ line_no = k

\* C8 (as claimed): every instruction matches the 8-entry opcode table in
\* opcode, arity and operand kinds, and a line with an unknown opcode, a
\* wrong operand count, an int operand that is not a base-10 signed integer
\* (an optional sign and decimal digits) or an empty string operand makes
\* the parse fail.
C8_Original == InstructionsMatchTable(IsSignedDecimal)

\* C8 (amended): the same, where the int operands that make the parse fail
\* are those that int(raw, 10) rejects: it accepts an optional sign and
\* decimal digits, and also single underscores between digits and
\* whitespace around the number.
C8_InstructionsMatchOpcodeTable == InstructionsMatchTable(IsPythonInt)

\* C8 witness: a returned list in which EMBER carries the integer 10 read
\* from the token 1_0 and FLASH carries a non-empty string
C8_Witness ==
    /\ ps.status = "returned"
    /\ Len(ps.instructions) = 2
    /\ InstrOp(ps.instructions[1]) = EMBER
    /\ PayloadOf(src[1]) = <<EMBER, <<"1", "_", "0">> >>
    /\ InstrArgs(ps.instructions[1]) = <<IntVal(10)>>
    /\ InstrOp(ps.instructions[2]) = FLASH

\* the label declarations and the label operands of line k
LabelOperandsOf(line) ==
    LET payload == PayloadOf(line)
    IN  IF Len(payload) = 2 /\ payload[1] \in {DRIFT, GLINT_ZERO, GLINT_POS}
        THEN {payload[2]} ELSE {}

\* C9: a label name, declared or used as a label operand, is accepted if
\* and only if it matches ^[A-Za-z_][A-Za-z0-9_.-]*$: every name the parser
\* has taken matches, a consumed line with a name that does not match has
\* failed the parse, and a name rejected as invalid does not match.
C9_LabelGrammar ==
    /\ \A i \in DOMAIN ps.instructions :
          \A m \in DOMAIN ps.instructions[i].labels :
             MatchesLabelGrammar(ps.instructions[i].labels[m])
    /\ \A name \in ReferencedNames : MatchesLabelGrammar(name)
    /\ \A k \in 1..line_no :
          ( \/ \E m \in 1..Len(DeclsOf(src[k])) : ~MatchesLabelGrammar(DeclsOf(src[k])[m])
            \/ \E name \in LabelOperandsOf(src[k]) : ~MatchesLabelGrammar(name) )
          => ps.status = "failed" /\ line_no = k
    /\ ps.err.kind \in {"invalid_label", "empty_label", "invalid_label_name"}
          => ~MatchesLabelGrammar(ps.err.name)

\* the text of a line of the form FLASH "text", text non-empty and free of
\* quotes and backslashes; <<>> for any other line
FlashText(line) ==
    IF /\ Len(line) >= 9
       /\ SubSeq(line, 1, 7) = FLASH \o <<" ", "\"">>
       /\ line[Len(line)] = "\""
       /\ \A i \in 8..(Len(line) - 1) : line[i] \notin {"\"", "\\"}
    THEN SubSeq(line, 8, Len(line) - 1)
    ELSE <<>>

\* C10: a line FLASH "text" with any non-empty text parses to exactly one
\* FLASH instruction whose single operand is text, whatever text looks like.
C10_FlashLiteralVerbatim ==
    \A k \in 1..line_no :
        FlashText(src[k]) # <<>> =>
           /\ (ps.status = "failed" /\ line_no = k)
                 => ps.err.kind \in {"dangling_label", "undefined_labels"}
           /\ \E i \in DOMAIN ps.instructions :
                 /\ ps.instructions[i].line = k
                 /\ InstrOp(ps.instructions[i]) = FLASH
                 /\ InstrArgs(ps.instructions[i]) = <<StrVal(FlashText(src[k]))>>
                 /\ ps.instructions[i].labels = <<>>
                 /\ \A j \in DOMAIN ps.instructions : ps.instructions[j].line = k => j = i

\* the quoting state of the tokenizer before each character of line: "out",
\* "dq" inside a double-quoted literal, "sq" inside a single-quoted one, and
\* "out_esc", "dq_esc" after a backslash
RECURSIVE QuoteStates(_, _, _)
QuoteStates(line, i, st) ==
    IF i > Len(line) THEN <<>>
    ELSE LET c == line[i]
             nxt == CASE st = "out" ->
                            (IF c = "\"" THEN "dq"
                             ELSE IF c = "'" THEN "sq"
                             ELSE IF c = "\\" THEN "out_esc" ELSE "out")
                      [] st = "out_esc" -> "out"
                      [] st = "dq" ->
                            (IF c = "\"" THEN "out"
                             ELSE IF c = "\\" THEN "dq_esc" ELSE "dq")
                      [] st = "dq_esc" -> "dq"
                      [] st = "sq" -> (IF c = "'" THEN "out" ELSE "sq")
         IN  <<st>> \o QuoteStates(line, i + 1, nxt)

\* the positions of line where a comment marker starts outside every
\* double-quoted literal, as the tokenizer delimits the literals
MarkersOutsideLiterals(line) ==
    {i \in 1..Len(line) :
        /\ \E m \in DOMAIN COMMENT_MARKERS : startswith(line, COMMENT_MARKERS[m], i)
        /\ QuoteStates(line, 1, "out")[i] \notin {"dq", "dq_esc"}}

\* line cut at the first such marker, without its trailing whitespace
CutAtFirstMarker(line) ==
    LET M == MarkersOutsideLiterals(line)
    IN  IF M = {} THEN rstrip(line)
        ELSE rstrip(SubSeq(line, 1, (CHOOSE i \in M : \A j \in M : i <= j) - 1))

\* C11: strip_comments cuts every line read at the first comment marker that
\* lies outside a double-quoted literal and drops the trailing whitespace; a
\* marker inside a literal as the tokenizer delimits it (a literal with a
\* backslash-escaped quote included) never cuts the line.
C11_CommentsCutOutsideLiterals ==
    \A k \in 1..line_no : strip_comments(src[k]) = CutAtFirstMarker(src[k])

\* C12: every ParseError raised by parse_program carries the number of a line
\* of the source, whatever the kind of the error (quoting, label, opcode,
\* arity, operand, dangling label, undefined reference).
C12_ParseErrorsCarryLine ==
    ps.status = "failed" => ps.err.line \in 1..Len(src)

\* the opcode of the operation run_program executed last, <<>> before the first
LastOpcode ==
    IF vm.executed = <<>> THEN <<>>
    ELSE program[vm.executed[Len(vm.executed)] + 1].opcode

\* C13: a run starts with ip 0, an empty stack and no outputs; it has halted
\* exactly when it executed QUIET or its ip equals len(operations); and once
\* QUIET was executed nothing of the run changes any more: no operation is
\* executed and the stack, the outputs, the input provider and the sink are
\* left alone, whatever operations follow the QUIET.
C13_RunStartsAndHalts ==
    /\ [](vm.status # "idle" =>
            /\ vm.executed = <<>> =>
                  /\ vm.ip = 0 /\ vm.stack = <<>> /\ vm.outputs = <<>>
                  /\ vm.sink = <<>> /\ vm.reads = 0
            /\ vm.status = "returned" <=> (LastOpcode = QUIET \/ vm.ip = Len(program))
            /\ vm.status \in {"loop", "returned", "raised"})
    /\ [][LastOpcode = QUIET => vm' = vm]_vars

\* a run returned to its caller after a QUIET that operations follow, having
\* emitted an output before it
C13_Witness ==
    /\ pc = "exit" /\ LastOpcode = QUIET
    /\ vm.ip + 1 < Len(program)
    /\ vm.outputs # <<>>

\* this step is a pass of the loop of run_program executing an operation of
\* the given opcode
Executes(opcode) ==
    /\ vm.status = "loop"
    /\ vm'.executed = Append(vm.executed, vm.ip)
    /\ program[vm.ip + 1].opcode = opcode

\* the integer operand of the operation at ip
IntOperand == program[vm.ip + 1].args[1].n

\* C14: TWIST n on an empty stack raises ExecutionError without appending to
\* the outputs, and nothing is executed after the error (the program TWIST 1
\* fails with no outputs); TWIST n on a stack with top t makes the top t - n,
\* keeps the depth and the elements below, and moves ip to ip + 1.
C14_Twist ==
    /\ [][Executes(TWIST) =>
             IF vm.stack = <<>>
             THEN /\ vm'.status = "raised" /\ vm'.err.kind = "stack_underflow"
                  /\ vm'.outputs = vm.outputs /\ vm'.sink = vm.sink
                  /\ vm'.stack = <<>> /\ vm'.ip = vm.ip
             ELSE /\ vm'.status # "raised"
                  /\ Len(vm'.stack) = Len(vm.stack)
                  /\ vm'.stack[Len(vm.stack)] = vm.stack[Len(vm.stack)] - IntOperand
                  /\ \A i \in 1..(Len(vm.stack) - 1) : vm'.stack[i] = vm.stack[i]
                  /\ vm'.ip = vm.ip + 1
                  /\ vm'.outputs = vm.outputs /\ vm'.sink = vm.sink]_vars
    /\ [][vm.status = "raised" => vm' = vm]_vars
    /\ []((Len(program) = 1 /\ program[1].opcode = TWIST /\ vm.executed # <<>>)
             => vm.status = "raised" /\ vm.outputs = <<>>)

\* TWIST was executed on a stack of two elements or more
C14_Witness ==
    /\ LastOpcode = TWIST /\ vm.status # "raised"
    /\ Len(vm.stack) >= 2
    /\ vm.stack[1] # vm.stack[Len(vm.stack)]

\* the value a conditional jump tests: the top of the stack, 0 if it is empty
TestedValue == IF vm.stack = <<>> THEN 0 ELSE vm.stack[Len(vm.stack)]

\* this step raises nothing and changes neither the stack nor the outputs nor
\* the calls of the sink
JumpOnly ==
    /\ vm'.status # "raised" /\ vm'.err = NoError
    /\ vm'.stack = vm.stack /\ vm'.outputs = vm.outputs
    /\ vm'.sink = vm.sink /\ vm'.reads = vm.reads

\* C15: GLINT.ZERO addr moves ip to addr if the top of the stack is 0 and to
\* ip + 1 otherwise; GLINT.POS addr moves ip to addr if the top is > 0 and to
\* ip + 1 otherwise; an empty stack is tested as 0 and raises no error; the
\* stack and the outputs are unchanged in every case.
C15_ConditionalJumps ==
    /\ [][Executes(GLINT_ZERO) =>
             /\ vm'.ip = (IF TestedValue = 0 THEN IntOperand ELSE vm.ip + 1)
             /\ JumpOnly]_vars
    /\ [][Executes(GLINT_POS) =>
             /\ vm'.ip = (IF TestedValue > 0 THEN IntOperand ELSE vm.ip + 1)
             /\ JumpOnly]_vars

\* GLINT.ZERO has jumped backwards on an empty stack
C15_Witness ==
    /\ LastOpcode = GLINT_ZERO /\ vm.stack = <<>>
    /\ Len(vm.executed) >= 2
    /\ vm.ip <= vm.executed[Len(vm.executed)]

\* the text of the FLASH operation at ip
FlashOperand == program[vm.ip + 1].args[1].s

\* C16: a step that executes FLASH appends its text, and nothing else, to the
\* outputs, leaves the stack unchanged and, if a sink is attached, calls it
\* once with that text; the calls of an attached sink are at every point the
\* outputs, in order; no other step appends to the outputs or calls the sink.
C16_FlashEmits ==
    /\ [][Executes(FLASH) =>
             /\ vm'.outputs = Append(vm.outputs, FlashOperand)
             /\ vm'.stack = vm.stack
             /\ vm'.sink = IF vm.output_sink THEN Append(vm.sink, FlashOperand)
                           ELSE vm.sink]_vars
    /\ [][~Executes(FLASH) => vm'.outputs = vm.outputs /\ vm'.sink = vm.sink]_vars
    /\ [](vm.sink = IF vm.output_sink THEN vm.outputs ELSE <<>>)

\* two different texts were emitted to an attached sink, around a push
C16_Witness ==
    /\ vm.output_sink
    /\ vm.sink = << <<"b">>, <<"a">> >>
    /\ vm.stack # <<>>

\* C17: when run_program has stopped with an ExecutionError, its caller holds
\* the outputs accumulated before the failure.
C17_OutputsSurviveError ==
    (pc = "exit" /\ vm.status = "raised") => cli.outputs = vm.outputs

\* the tags of the diagnostics of the driver
DiagnosticTags == {"[parse-error]", "[link-error]", "[runtime-error]"}

\* the tag of the stage that failed, "" if none did
FailedStageTag ==
    IF ps.status = "failed" THEN "[parse-error]"
    ELSE IF link_err # NoError THEN "[link-error]"
    ELSE IF vm.status = "raised" THEN "[runtime-error]"
    ELSE ""

\* the exit code of main.py is 0 exactly when no stage failed and 1 otherwise
DriverExitCode ==
    (impl = "parser" /\ pc = "exit") =>
        cli.exit_code = (IF FailedStageTag = "" THEN 0 ELSE 1)

\* C18: main.py returns 0 exactly when parse, link and execution all succeed
\* and 1 on a ParseError, LinkError or ExecutionError; in that case it writes
\* one diagnostic line, tagged with the stage that failed, to the error
\* stream and none to standard output.
C18_DriverExitAndDiagnostics ==
    /\ DriverExitCode
    /\ (impl = "parser" /\ pc = "exit" /\ FailedStageTag # "") =>
              /\ cli.stderr = <<Line(FailedStageTag, <<>>)>>
              /\ \A i \in DOMAIN cli.stdout : cli.stdout[i].tag \notin DiagnosticTags

\* the moves of main.py from stage to stage
StageMoves ==
    {<<"parse", "assemble">>, <<"parse", "exit">>, <<"assemble", "link">>,
     <<"link", "run">>, <<"link", "exit">>, <<"run", "exit">>}

\* the completion lines main.py has written, in the order written
CompletionLines ==
    SelectSeq(cli.stdout,
              LAMBDA l : l.tag \in {"[parser] complete", "[assembler] complete",
                                    "[linker] complete", "[runtime] complete"})

\* C19: main.py runs parse, assemble, link and execute in this order, each
\* only after the one before it succeeded; after a failed stage no later
\* stage starts (after a ParseError no unit is assembled, nothing is linked,
\* no input is read and no output emitted); and every diagnostic written has
\* the tag of the stage that failed.
C19_StagesInOrder ==
    /\ [][(impl = "parser" /\ pc' # pc) => <<pc, pc'>> \in StageMoves]_vars
    /\ [](impl = "parser" =>
            /\ (pc \in {"assemble", "link", "run"} \/ unit # NoUnit)
                  => ps.status = "returned"
            /\ (pc \in {"link", "run"} \/ vm.status # "idle" \/ link_err # NoError)
                  => unit = assemble(ps.instructions)
            /\ vm.status # "idle"
                  => /\ link_err = NoError
                     /\ program = link(unit).operations
            /\ ps.status = "failed" => (unit = NoUnit /\ program = <<>> /\ vm = vm_idle)
            /\ link_err # NoError => vm = vm_idle
            /\ vm.status \in {"idle", "loop"} => cli.outputs = <<>>
            /\ \A i \in DOMAIN cli.stdout :
                  /\ cli.stdout[i].tag \in DiagnosticTags => cli.stdout[i].tag = FailedStageTag
                  /\ cli.stdout[i].tag = "" => vm.status = "returned"
            /\ \A i \in DOMAIN cli.stderr :
                  cli.stderr[i].tag \in DiagnosticTags => cli.stderr[i].tag = FailedStageTag
            /\ \E n \in 0..4 :
                  CompletionLines =
                      SubSeq(<<Line("[parser] complete", <<>>),
                               Line("[assembler] complete", <<>>),
                               Line("[linker] complete", <<>>),
                               Line("[runtime] complete", <<>>)>>, 1, n))

\* main.py has returned after an ExecutionError of a run that had emitted
\* an output
C19_Witness ==
    /\ impl = "parser" /\ pc = "exit"
    /\ vm.status = "raised" /\ vm.outputs # <<>>
    /\ cli.stdout[Len(cli.stdout)].tag = "[runtime-error]"

\* the instructions of the unit whose operand is a label name
LabelInstructions ==
    {i \in DOMAIN unit.instructions : unit.instructions[i].op \in {DRIFT, GLINT_ZERO, GLINT_POS}}

\* those of them whose label is absent from the label table
MissingAt ==
    {i \in LabelInstructions : unit.instructions[i].args[1].s \notin DOMAIN unit.label_table}

\* C20: link of a hand-constructed unit with a label operand absent from its
\* label_table raises LinkError naming that label (the first absent one) and
\* returns no Program; otherwise every label operand is replaced by its table
\* entry, an entry 0 giving the operand 0 like any other index.
C20_LinkOfHandMadeUnit ==
    pc # "link" =>
        IF MissingAt # {}
        THEN /\ link_err.kind = "link_undefined"
             /\ \E i \in MissingAt :
                   /\ \A j \in MissingAt : i <= j
                   /\ link_err.name = unit.instructions[i].args[1].s
             /\ program = <<>> /\ vm = vm_idle
        ELSE /\ link_err = NoError
             /\ Len(program) = Len(unit.instructions)
             /\ \A i \in DOMAIN unit.instructions :
                   /\ program[i].opcode = unit.instructions[i].op
                   /\ program[i].args =
                         IF i \in LabelInstructions
                         THEN <<IntVal(unit.label_table[unit.instructions[i].args[1].s])>>
                         ELSE unit.instructions[i].args

\* a unit of two jumps was linked, one of them to a label whose entry is 0
C20_Witness ==
    /\ pc # "link" /\ link_err = NoError
    /\ Len(unit.instructions) = 2 /\ LabelInstructions = {1, 2}
    /\ unit.label_table[unit.instructions[2].args[1].s] = 0
    /\ program[2].args = <<IntVal(0)>>
    /\ program[1].args = <<IntVal(1)>>

\* C21: the program EMBER 5 / TWIST 2 / FLASH "done" / QUIET passes parse,
\* assemble and link, and its run halts at QUIET with the outputs ["done"] and
\* the stack [3].
C21_HappyPath ==
    src = HappyPath =>
        /\ ps.status # "failed" /\ link_err = NoError /\ vm.status # "raised"
        /\ vm.status = "returned" =>
              /\ vm.outputs = << <<"d", "o", "n", "e">> >>
              /\ vm.stack = <<3>>
              /\ LastOpcode = QUIET /\ vm.executed = <<0, 1, 2, 3>>
        /\ (pc = "exit" /\ impl = "parser") =>
              /\ vm.status = "returned"
              /\ cli.outputs = vm.outputs /\ cli.exit_code = 0

\* main.py has returned from the happy path
C21_Witness ==
    /\ src = HappyPath /\ impl = "parser" /\ pc = "exit"
    /\ vm.stack = <<3>> /\ cli.outputs = << <<"d", "o", "n", "e">> >>

\* C22: the program GLINT.ZERO L / FLASH "unreached" / DRIFT END /
\* L: FLASH "hit" / END: QUIET run through the pipeline emits exactly ["hit"],
\* and neither the first FLASH nor the DRIFT is ever executed.
C22_BranchOnEmptyStack ==
    src = BranchOnEmpty =>
        /\ ps.status # "failed" /\ link_err = NoError /\ vm.status # "raised"
        /\ \A i \in DOMAIN vm.executed : vm.executed[i] \notin {1, 2}
        /\ \A i \in DOMAIN vm.outputs : vm.outputs[i] = <<"h", "i", "t">>
        /\ vm.status = "returned" =>
              /\ vm.outputs = << <<"h", "i", "t">> >>
              /\ vm.executed = <<0, 3, 4>> /\ vm.stack = <<>>
        /\ (pc = "exit" /\ impl = "parser") =>
              /\ vm.status = "returned"
              /\ cli.outputs = vm.outputs /\ cli.exit_code = 0

\* main.py has returned from the branch program
C22_Witness ==
    /\ src = BranchOnEmpty /\ impl = "parser" /\ pc = "exit"
    /\ cli.outputs = << <<"h", "i", "t">> >>
    /\ cli.stdout[Len(cli.stdout)] = Line("", <<"h", "i", "t">>)

\* the label table of the instructions parse_program returned
LabelTableOf(instructions) ==
    IF impl = "parser" THEN assemble(instructions).label_table
    ELSE build_label_index(instructions)

Called(name) == bank.running /\ "last" \in DOMAIN bank /\ bank.last.call = name

\* C24: on the simple example, request_resources and apply_request grant
\* the request [1,0,2] of process 0 and deny its request [10,0,2].
C24_SimpleExampleRequests ==
    (Called("apply_request") /\ bank.last.before = get_simple_example
        /\ bank.last.process_id = 0) =>
       /\ bank.last.request = <<1, 0, 2>> =>
             (bank.last.granted /\ bank.last.explanation = "Request granted.")
       /\ bank.last.request = <<10, 0, 2>> =>
             (~bank.last.granted /\ bank.last.explanation = "Request denied.")

\* C25: is_safe_state finds a safe sequence for each preset badged Safe,
\* and for the preset badged Unsafe it returns (False, None), none of its
\* processes having a need the initial available vector covers.
C25_PresetBadges ==
    \A key \in DOMAIN PRESET_LIBRARY :
       (Called("check_safety") /\ bank.last.before = PRESET_LIBRARY[key].builder) =>
          IF PRESET_LIBRARY[key].badge = "Safe"
          THEN bank.last.is_safe /\ ~bank.last.none
               /\ Len(bank.last.safe_sequence) = bank.state.num_processes
          ELSE /\ ~bank.last.is_safe /\ bank.last.none
               /\ \A i \in 1..bank.state.num_processes :
                     \E j \in 1..bank.state.num_resources :
                        bank.state.max_matrix[i][j] - bank.state.allocation_matrix[i][j]
                           > bank.state.available[j]

\* the safety of the preset badged Unsafe was checked
C25_Witness ==
    /\ Called("check_safety") /\ bank.last.before = get_unsafe_example
    /\ PRESET_LIBRARY["unsafe"].badge = "Unsafe"

\* the request just made names a process and has an entry per resource type
WellFormedRequest ==
    /\ Called("apply_request")
    /\ item(bank.last.process_id, bank.last.before.num_processes) # 0
    /\ Len(bank.last.request) = bank.last.before.num_resources

\* the state before the request with the request moved from available to
\* the row of the process
AfterGrant ==
    LET b == bank.last.before
        row == item(bank.last.process_id, b.num_processes)
    IN  [b EXCEPT
           !.available = [j \in 1..b.num_resources |-> b.available[j] - bank.last.request[j]],
           !.allocation_matrix[row] =
               [j \in 1..b.num_resources |->
                   b.allocation_matrix[row][j] + bank.last.request[j]]]

\* the request is within the need of the process and within available, and
\* AfterGrant is safe
Grantable ==
    LET b == bank.last.before
        row == item(bank.last.process_id, b.num_processes)
    IN  /\ \A j \in 1..b.num_resources :
              bank.last.request[j] <= b.max_matrix[row][j] - b.allocation_matrix[row][j]
        /\ \A j \in 1..b.num_resources : bank.last.request[j] <= b.available[j]
        /\ is_safe_state(AfterGrant).safe

C29_ResetRestoresConfiguration ==
    (bank.running /\ bank.last = "System reset to original configuration.") =>
       /\ bank.system_state # 0
       /\ deref(bank, bank.system_state) = bank.entered

\* this step executes a jump that is taken: DRIFT, or a GLINT whose test holds
TakenJump ==
    \/ Executes(DRIFT)
    \/ Executes(GLINT_ZERO) /\ TestedValue = 0
    \/ Executes(GLINT_POS) /\ TestedValue > 0

\* C26: in a run of a program the pipeline produced, 0 <= ip <= len(operations)
\* at every point, and a step that makes ip equal to len(operations) executes
\* the last operation and advances past it, by ip + 1 or by a conditional jump
\* that is not taken; no taken jump has len(operations) as its target.
C26_IpWithinProgram ==
    /\ [](vm.status # "idle" => (0 <= vm.ip /\ vm.ip <= Len(program)))
    /\ [][(vm.status = "loop" /\ vm'.ip = Len(program)) =>
             /\ vm.ip = Len(program) - 1
             /\ vm'.ip = vm.ip + 1
             /\ ~TakenJump]_vars
    /\ [][TakenJump => vm'.ip < Len(program)]_vars

\* a run ended past its last operation, a conditional jump to a label of the
\* program that was not taken
C26_Witness ==
    /\ vm.status = "returned" /\ vm.ip = Len(program)
    /\ LastOpcode \in {GLINT_ZERO, GLINT_POS}
    /\ Len(vm.executed) >= 2 /\ vm.stack # <<>>

RECURSIVE ParseWith(_, _, _)
\* parse_program of parser i on the source, from line k + 1 on
ParseWith(i, st, k) ==
    IF st.status # "loop" THEN st
    ELSE IF k >= Len(src)
    THEN (IF i = "parser" THEN parse_end(st) ELSE c_parse_end(st))
    ELSE ParseWith(i,
                   IF i = "parser" THEN parse_line(st, src[k + 1], k + 1)
                   ELSE c_parse_line(st, src[k + 1], k + 1),
                   k + 1)

\* the instructions a parser returned, as (opcode, operands, labels, line)
RowsOf(i, st) ==
    [k \in DOMAIN st.instructions |->
        IF i = "parser"
        THEN <<st.instructions[k].op, st.instructions[k].args,
               st.instructions[k].labels, st.instructions[k].line>>
        ELSE <<st.instructions[k].opcode, st.instructions[k].operands,
               st.instructions[k].labels, st.instructions[k].line>>]

\* what the parser that did not parse the source makes of it
OtherParser == IF impl = "parser" THEN "compiler" ELSE "parser"
OtherParse ==
    ParseWith(OtherParser,
              IF impl = "parser" THEN c_parse_start ELSE parse_start, 0)

\* C30: compiler/parser.py and compiler/compiler.py accept the same sources,
\* and for an accepted source they return the same (opcode, operands, labels,
\* line) sequence and the same label table.
C30_ParsersAgree ==
    ps.status \in {"failed", "returned"} =>
       /\ (ps.status = "returned") <=> (OtherParse.status = "returned")
       /\ (ps.status = "returned" /\ OtherParse.status = "returned") =>
             /\ RowsOf(impl, ps) = RowsOf(OtherParser, OtherParse)
             /\ assemble(IF impl = "parser" THEN ps.instructions
                         ELSE OtherParse.instructions).label_table
                   = build_label_index(IF impl = "parser" THEN OtherParse.instructions
                                       ELSE ps.instructions)

\* this step is a malformed entry at the prompt of a SIP
MalformedEntry ==
    /\ vm.status = "loop" /\ program[vm.ip + 1].opcode = SIP
    /\ vm'.prompts = vm.prompts + 1

\* C27: a step that executes SIP calls the input collaborator once and pushes
\* the integer it returns, moving ip to ip + 1; with the default collaborator
\* a malformed entry changes neither the stack nor ip nor the outputs and
\* leaves the run at the same SIP, prompting again, and the SIP is completed
\* by the first well-formed integer entered.
C27_SipReadsOnce ==
    /\ [][Executes(SIP) =>
             /\ vm'.reads = vm.reads + 1
             /\ Len(vm'.stack) = Len(vm.stack) + 1
             /\ SubSeq(vm'.stack, 1, Len(vm.stack)) = vm.stack
             /\ vm'.stack[Len(vm'.stack)] \in InputValues
             /\ vm'.ip = vm.ip + 1
             /\ vm'.status # "raised" /\ vm'.outputs = vm.outputs
             /\ vm'.prompts = vm.prompts]_vars
    /\ [][MalformedEntry =>
             /\ ~vm.input_provider
             /\ vm'.stack = vm.stack /\ vm'.ip = vm.ip /\ vm'.outputs = vm.outputs
             /\ vm'.reads = vm.reads /\ vm'.executed = vm.executed
             /\ vm'.status = "loop"
             /\ cli'.stdout = Append(cli.stdout, Line("Please enter an integer.", <<>>))]_vars
    /\ [][(vm.status = "loop" /\ vm'.prompts = vm.prompts /\ vm' # vm
              /\ program[vm.ip + 1].opcode = SIP) => Executes(SIP)]_vars

\* after a malformed entry, a SIP of a run without input provider was
\* completed by the integer entered next
C27_Witness ==
    /\ ~vm.input_provider /\ vm.prompts > 0
    /\ vm.reads > 0 /\ vm.stack # <<>>
    /\ vm.executed # <<>> /\ program[vm.executed[Len(vm.executed)] + 1].opcode = SIP

\* an operation that pushes was executed before the last executed operation
PushedBefore ==
    \E k \in 1..(Len(vm.executed) - 1) :
       program[vm.executed[k] + 1].opcode \in {SIP, EMBER}

\* C31: in a run no step makes the stack shorter and every step leaves the
\* outputs as they were or appends to them; so a TWIST that comes after an
\* executed SIP or EMBER never raises the stack-underflow ExecutionError.
C31_StackNeverShrinks ==
    /\ [][vm.status = "loop" =>
             /\ Len(vm'.stack) >= Len(vm.stack)
             /\ Len(vm'.outputs) >= Len(vm.outputs)
             /\ SubSeq(vm'.outputs, 1, Len(vm.outputs)) = vm.outputs]_vars
    /\ []((vm.status = "raised" /\ vm.err.kind = "stack_underflow") => ~PushedBefore)

\* a TWIST was executed after an EMBER or a SIP and a FLASH, and raised nothing
C31_Witness ==
    /\ LastOpcode = TWIST /\ PushedBefore /\ vm.status # "raised"
    /\ vm.outputs # <<>> /\ vm.stack # <<>>

\* every jump of the program has a target above its own index
ForwardOnly ==
    \A i \in DOMAIN program :
       program[i].opcode \in {DRIFT, GLINT_ZERO, GLINT_POS} =>
          /\ program[i].args # <<>> /\ program[i].args[1].t = "int"
          /\ program[i].args[1].n > i - 1

\* C32: a program whose jumps all go forward executes each operation at most
\* once, in increasing order of index, so at most len(operations) operations
\* in all; after that many the run has returned or raised, and while it has
\* not, its next operation can be executed, whatever the inputs were.
C32_ForwardJumpsTerminate ==
    (ForwardOnly /\ vm.status # "idle") =>
       /\ Len(vm.executed) <= Len(program)
       /\ \A k \in 1..(Len(vm.executed) - 1) : vm.executed[k] < vm.executed[k + 1]
       /\ Len(vm.executed) = Len(program) => vm.status \in {"returned", "raised"}
       /\ vm.status = "loop" => ENABLED Step

\* a program with a forward jump that was taken and an input read ended
\* past its last operation
C32_Witness ==
    /\ ForwardOnly /\ vm.status = "returned" /\ vm.ip = Len(program)
    /\ vm.reads > 0
    /\ \E k \in 1..(Len(vm.executed) - 1) : vm.executed[k + 1] > vm.executed[k] + 1

\* the operation executed last
LastOp == program[vm.executed[Len(vm.executed)] + 1]

\* the operation has an opcode outside the table, or is one of those that
\* read an operand and has none
UnknownOrLacking(op) ==
    \/ op.opcode \notin Opcodes
    \/ op.opcode \in {EMBER, TWIST, DRIFT, GLINT_ZERO, GLINT_POS, FLASH} /\ op.args = <<>>

\* the operation reads an integer and its operand is neither an integer nor
\* a string int() accepts, or it is a FLASH whose operand is no string
WrongOperand(op) ==
    /\ op.args # <<>>
    /\ \/ /\ op.opcode \in {EMBER, TWIST, DRIFT, GLINT_ZERO, GLINT_POS}
          /\ op.args[1].t # "int"
          /\ ~(op.args[1].t = "str" /\ py_int(op.args[1].s).ok)
       \/ op.opcode = FLASH /\ op.args[1].t # "str"

\* C37 as stated: run_program raises ExecutionError exactly when the
\* operation reached has an opcode outside the table or lacks the operand it
\* reads.
C37_Original ==
    vm.executed # <<>> => (vm.status = "raised" <=> UnknownOrLacking(LastOp))

\* C37: run_program raises ExecutionError exactly when the operation reached
\* has an opcode outside the table, lacks the operand it reads, has an
\* operand of the wrong kind, or is a TWIST met with an empty stack; an
\* operation that is never reached raises nothing.
C37_RaisesExactlyWhen ==
    /\ vm.executed = <<>> => vm.status # "raised"
    /\ vm.executed # <<>> =>
          /\ vm.status = "raised" <=>
                \/ UnknownOrLacking(LastOp)
                \/ WrongOperand(LastOp)
                \/ LastOp.opcode = TWIST /\ vm.stack = <<>>
          /\ vm.status = "raised" => vm.err # NoError /\ vm.err.line = LastOp.line
          /\ vm.status # "raised" => vm.err = NoError

\* a run returned by QUIET with an operation lacking its operand, or of an
\* opcode outside the table, placed after the QUIET
C37_Witness ==
    /\ vm.status = "returned" /\ LastOpcode = QUIET
    /\ \E i \in DOMAIN program :
          /\ i > vm.executed[Len(vm.executed)] + 1
          /\ UnknownOrLacking(program[i])

\* the request just made met neither of the two checks against need and
\* available
PassedChecks ==
    LET b == bank.last.before
        row == item(bank.last.process_id, b.num_processes)
    IN  /\ WellFormedRequest
        /\ \A j \in 1..b.num_resources :
              /\ bank.last.request[j] <= b.max_matrix[row][j] - b.allocation_matrix[row][j]
              /\ bank.last.request[j] <= b.available[j]

\* C33: whenever request_resources returns False, the available vector, the
\* allocation matrix, the max matrix and the need matrix are what they were
\* before the call.
C33_DenialChangesNothing ==
    (Called("apply_request") /\ ~bank.last.raised /\ ~bank.last.granted) =>
       /\ bank.state.available = bank.last.before.available
       /\ bank.state.allocation_matrix = bank.last.before.allocation_matrix
       /\ bank.state.max_matrix = bank.last.before.max_matrix
       /\ need_matrix(bank.state) = need_matrix(bank.last.before)

\* a request that asks for something was denied because the provisional
\* state is unsafe
C33_Witness ==
    /\ PassedChecks /\ ~bank.last.granted
    /\ \E j \in DOMAIN bank.last.request : bank.last.request[j] > 0

\* C34: a request_resources call on a state is_safe_state finds safe,
\* whatever its process and request vector and whether granted or denied,
\* leaves a state is_safe_state finds safe, and so does every sequence of
\* calls.
C34_SafetyPreserved ==
    (Called("apply_request") /\ is_safe_state(bank.last.before).safe) =>
       is_safe_state(bank.state).safe

\* two requests one after the other on a safe state, the second one granted
\* and changing the state
C34_Witness ==
    /\ Called("apply_request") /\ bank.requests = 2 /\ bank.last.granted
    /\ is_safe_state(bank.last.before).safe
    /\ bank.state # bank.last.before

RECURSIVE column_sum(_, _, _)
\* the sum of column j of the first n rows of the matrix
column_sum(matrix, j, n) ==
    IF n = 0 THEN 0 ELSE matrix[n][j] + column_sum(matrix, j, n - 1)

\* available[j] plus what the processes hold of resource j
Total(s, j) == s.available[j] + column_sum(s.allocation_matrix, j, s.num_processes)

\* every entry of the state is at least 0
NonNegative(s) ==
    /\ \A i \in DOMAIN s.max_matrix : \A j \in DOMAIN s.max_matrix[i] :
          s.max_matrix[i][j] >= 0
    /\ \A i \in DOMAIN s.allocation_matrix : \A j \in DOMAIN s.allocation_matrix[i] :
          s.allocation_matrix[i][j] >= 0
    /\ \A j \in DOMAIN s.available : s.available[j] >= 0

\* C35: after any sequence of request_resources calls on a valid state of
\* non-negative entries, the total of each resource is unchanged, every
\* allocation entry is between 0 and its max entry, every available entry
\* is at least 0, and validate() returns True.
C35_ConservationAndRanges ==
    (bank.running /\ validate(bank.start) /\ NonNegative(bank.start)) =>
       /\ \A j \in 1..bank.state.num_resources :
             Total(bank.state, j) = Total(bank.start, j)
       /\ \A i \in 1..bank.state.num_processes : \A j \in 1..bank.state.num_resources :
             /\ 0 <= bank.state.allocation_matrix[i][j]
             /\ bank.state.allocation_matrix[i][j] <= bank.state.max_matrix[i][j]
       /\ \A j \in 1..bank.state.num_resources : bank.state.available[j] >= 0
       /\ validate(bank.state)

\* the orderings of all the processes, as sequences of ids from 0
Orderings(s) ==
    {seq \in [1..s.num_processes -> 0..(s.num_processes - 1)] :
        \A a, b \in 1..s.num_processes : a # b => seq[a] # seq[b]}

RECURSIVE work_after(_, _, _)
\* available plus the allocations of the first k processes of the ordering
work_after(s, seq, k) ==
    IF k = 0 THEN s.available
    ELSE LET before == work_after(s, seq, k - 1)
         IN  [j \in 1..s.num_resources |->
                 before[j] + s.allocation_matrix[seq[k] + 1][j]]

\* the need of each process of the ordering is within available plus the
\* allocations of the processes before it
InTurn(s, seq) ==
    \A k \in 1..s.num_processes :
       \A j \in 1..s.num_resources :
          s.max_matrix[seq[k] + 1][j] - s.allocation_matrix[seq[k] + 1][j]
             <= work_after(s, seq, k - 1)[j]

\* C36: is_safe_state returns, and returns (True, seq) exactly when some
\* ordering of all the processes has each process's need covered by
\* available plus the allocations of the processes before it; seq is then
\* such an ordering, otherwise the result is (False, None); the state is
\* left as it was.
C36_SafeIffOrderingExists ==
    Called("check_safety") =>
       LET b == bank.last.before
       IN  /\ bank.last.is_safe \in BOOLEAN
           /\ bank.last.is_safe <=> \E seq \in Orderings(b) : InTurn(b, seq)
           /\ bank.last.is_safe =>
                 /\ ~bank.last.none
                 /\ bank.last.safe_sequence \in Orderings(b)
                 /\ InTurn(b, bank.last.safe_sequence)
           /\ ~bank.last.is_safe => bank.last.none
           /\ bank.state = b

\* C38: _compute_trace and is_safe_state return the same verdict and the
\* same safe sequence for every system state, and the last line of the trace
\* states that verdict.
C38_TraceAgreesWithCore ==
    Called("_compute_trace") =>
       LET core == is_safe_state(bank.last.before)
           last_line == bank.last.trace[Len(bank.last.trace)]
       IN  /\ bank.last.is_safe = core.safe
           /\ bank.last.none = core.none
           /\ bank.last.safe_sequence = core.sequence
           /\ bank.last.trace # <<>>
           /\ last_line.line = (IF core.safe THEN "System is SAFE" ELSE "System is UNSAFE")
           /\ core.safe => last_line.sequence = core.sequence
           /\ \A k \in 1..(Len(bank.last.trace) - 1) :
                 bank.last.trace[k].line \in {"Inspect", "can finish"}

\* a trace of a state changed by a request, in which a process that could
\* not finish was inspected before one that could
C38_Witness ==
    /\ Called("_compute_trace") /\ bank.last.is_safe
    /\ bank.requests > 0 /\ bank.state # bank.start
    /\ \E k \in 1..(Len(bank.last.trace) - 1) :
          /\ bank.last.trace[k].line = "Inspect"
          /\ bank.last.trace[k + 1].line = "Inspect"

====
